---- MODULE Spec2Model ----
(***************************************************************************)
(* FastFlight: the resilient client (retry engine, circuit breaker and     *)
(* their composition in ResilienceManager) and the merge of partition      *)
(* results in DistributedTimeSeriesService.                                *)
(*                                                                         *)
(* Two revisions of the retry loop live in the repository:                 *)
(*   impl = "module"   src/src/fastflight/resilience.py                    *)
(*   impl = "package"  src/src/fastflight/resilience/core/manager.py       *)
(* They share the circuit breaker and differ in the test the loop applies  *)
(* to a failed attempt.                                                    *)
(***************************************************************************)
EXTENDS Integers, Sequences, FiniteSets, TLC

\* ------------------------------------------------------------ bounds
MaxThreshold == 2
MaxRecovery == 1
MaxAttempts == 2
MaxTime == 2
MaxFailures == 3
MaxParts == 3
MaxBatches == 2
MaxStart == 1
MaxDuration == 6
MaxSplit == 5
MaxWindow == 3
MaxPool == 2
MaxServed == 3
MaxDelayAttempts == 3
MaxCancelParts == 2
MaxWorkers == 9
MaxTarget == 2
MaxPoints == 4
MaxQuery == 10
MaxReverse == 1
MaxRange == 2

\* two concurrent callers of one ResilienceManager
Tasks == {"t1", "t2"}
\* the callers of the connection pool
Callers == {"c1", "c2"}

\* min(max_workers, 8) in get_optimal_partitions
FallbackPartitions == 8

\* timedelta(minutes=15) and timedelta(hours=1) of optimize_time_series_query,
\* in milliseconds, and the default target_points_per_partition
QuarterHour == 900000
Hour == 3600000
DefaultTarget == 10000

\* ------------------------------------------------------------ error kinds
CONNECTION == "Connection"
TIMEOUT == "Timeout"
SERVER == "Server"
VALUE == "ValueError"
CIRCUIT_OPEN == "CircuitOpen"
RETRY_EXHAUSTED == "RetryExhausted"

\* what the wrapped function can raise
FuncKinds == {CONNECTION, TIMEOUT, VALUE}

\* RetryConfig.retryable_exceptions: the default, and the narrower tuple
\* the tests configure
DefaultRetryable == {CONNECTION, TIMEOUT, SERVER}
RetryableChoices == {DefaultRetryable, {CONNECTION}}

\* CircuitBreakerConfig.monitored_exceptions
DefaultMonitored == {CONNECTION, SERVER, TIMEOUT}
MonitoredChoices == {DefaultMonitored}

\* ------------------------------------------------------------ circuit states
CLOSED == "closed"
OPEN == "open"
HALF_OPEN == "half_open"

None == -1

\* Python truth of an Optional[float]: None and 0.0 are both false
Truthy(x) == x # None /\ x # 0

\* an exception object: its kind, the attempt that raised it, and for the
\* two wrapper errors retry_after / last_error
NoCause == <<>>
Exc(kind, at) == [kind |-> kind, at |-> at, retry_after |-> 0, last_error |-> NoCause]
CircuitOpenError(at, retry_after) ==
    [kind |-> CIRCUIT_OPEN, at |-> at, retry_after |-> retry_after, last_error |-> NoCause]
RetryExhaustedError(attempt_count, last) ==
    [kind |-> RETRY_EXHAUSTED, at |-> attempt_count, retry_after |-> 0,
     last_error |-> <<last.kind, last.at>>]
NoExc == [kind |-> "none", at |-> 0, retry_after |-> 0, last_error |-> NoCause]

VARIABLES
    config,          \* the ResilienceConfig in force (fixed after construction)
    breaker,         \* the CircuitBreaker's fields
    now,             \* time.time()
    pc,              \* per task: idle | running | sleeping | returned
    attempt,         \* per task: the retry loop's attempt
    calls,           \* per task: invocations of the wrapped function in this call
    sleeps,          \* per task: retry delays slept in this call
    last_exception,  \* per task: the retry loop's last_exception
    outcome,         \* per task: what execute_with_resilience gave its caller
    entry            \* per task inside CircuitBreaker.call: the breaker as the call found it

VARIABLES
    sconf,              \* the dispatch: backend, api (sync/async), preserve_order, partitions
    worker,             \* per partition: running | done | crashed
    nbatches,           \* per partition: length of the list a finished Ray task returned
    failed,             \* partitions whose worker or service raised
    pending,            \* futures not yet taken
    ready,              \* ready_futures being handled
    results,            \* keys of the results dict
    next_expected_idx,
    cur,                \* partition whose batches are being yielded (None: none)
    pos,                \* batches of cur yielded so far
    emitted,            \* the merged stream so far: <<partition, batch number>>
    spc                 \* idle | poll | handle | drain | emit | done | aborted

resVars == <<config, breaker, now, pc, attempt, calls, sleeps, last_exception, outcome,
             entry>>
streamVars == <<sconf, worker, nbatches, failed, pending, ready, results,
                next_expected_idx, cur, pos, emitted, spc>>

VARIABLES
    params,          \* the TimeSeriesParams being split: start_time, end_time (microseconds)
    num_partitions,  \* argument of split_by_time_windows
    window_size,     \* argument of split_by_window_size (microseconds)
    partitions,      \* the list returned
    tpc,             \* idle | call | returned | raised
    max_workers,     \* argument of get_optimal_partitions
    target_points_per_partition,  \* argument of get_optimal_partitions
    estimated_points,  \* what estimate_data_points() returns (None in the base class)
    method           \* the method that was called

splitVars == <<params, num_partitions, window_size, partitions, tpc, max_workers,
               target_points_per_partition, estimated_points, method>>

VARIABLES
    pool_size,       \* FlightClientPool.pool_size
    queue,           \* FlightClientPool.queue, oldest first
    client,          \* per caller: the handle its acquire scope is bound to (None: none)
    reader,          \* per caller: the handle whose do_get stream it has open (None: none)
    timeout,         \* per caller: whether its acquire was given a timeout
    op,              \* per caller: "table" (reads inside the scope) | "reader" (gets the reader back)
    ppc,             \* per caller: idle | waiting | scope | got | read | out | exhausted
    closed,          \* handles whose close() has run
    closing,         \* the handle close_async has taken and is closing (None: none)
    cpc              \* close_async: idle | loop | closed

poolVars == <<pool_size, queue, client, reader, timeout, op, ppc, closed, closing, cpc>>

VARIABLES
    server,          \* which server handles the request: "server" (FastFlightServer) | "flight_server" (FlightServer)
    ticket,          \* the request: what decoding and lookup make of it, the parameter's kind
    service,         \* the resolved service: sync or async only, batches it yields, whether it then raises
    rpc,             \* received | resolved | first | stream_first | stream_rest | done | failed | aborted
    called,          \* how the service was called: none | direct | dispatcher
    produced,        \* the batches the service has yielded, in order
    producer,        \* the bridge's _iterate task: none | running | ended | died
    bridge,          \* the bridge's asyncio.Queue, oldest first (None: the end mark)
    first_batch,     \* the batch read for the schema (None: none)
    schema,          \* whether a schema was handed to the transport
    sent,            \* the response stream so far
    status,          \* pending | stream | done | aborted | Internal | Unavailable
    detail           \* what the error message reports

serverVars == <<server, ticket, service, rpc, called, produced, producer, bridge,
                first_batch, schema, sent, status, detail>>

\* RegistryManager
VARIABLES
    params_registry,   \* _params_registry: qualified name -> parameter type
    service_registry,  \* _service_registry: qualified name -> service type
    alias_registry,    \* _alias_registry: alias -> qualified name
    reg_raised         \* what the last call raised

regVars == <<params_registry, service_registry, alias_registry, reg_raised>>

\* BaseParams.to_bytes / from_bytes
VARIABLES
    base,              \* the revision of BaseParams
    registered,        \* whether the instance's type is registered
    params_obj,        \* the instance
    data,              \* to_bytes(params_obj), as the JSON object it spells
    new_params,        \* from_bytes(data)
    data2,             \* new_params.to_bytes()
    kraised,           \* what the last call raised
    kpc                \* new | encoded | decoded | done | raised

codecVars == <<base, registered, params_obj, data, new_params, data2, kraised, kpc>>

\* RetryConfig.calculate_delay over the attempts of one retry loop
VARIABLES
    rconf,             \* strategy, base_delay, max_delay, exponential_base, jitter_factor
    raws,              \* the local delay of each attempt so far, before min
    delays             \* the value returned for each attempt so far

delayVars == <<rconf, raws, delays>>

\* optimize_time_series_query
VARIABLES
    query,             \* the params argument: start_time, end_time (milliseconds)
    hint,              \* the OptimizationHint: pattern, max_workers, target_batch_size
    estimate,          \* what query.estimate_data_points() returns
    plan,              \* the list returned
    opc                \* idle | call | returned | raised

optVars == <<query, hint, estimate, plan, opc>>

\* one call of FastFlightClient (or of FlightClientPool.acquire) and the
\* event-loop thread of its AsyncToSyncConverter
VARIABLES
    capi,              \* the method called: aget_stream_reader | get_stream_reader | acquire
    fpc,               \* the caller: idle | call | execute | result | returned | raised
    loop_thread,       \* the converter's loop thread: idle | execute | result (inside future.result())
    scheduled,         \* coroutines handed to the loop by run_coroutine_threadsafe, oldest first
    craised,           \* per attempt: the error raised inside _execute_operation
    cseen,             \* per attempt: the error _execute_operation raised to the retry and breaker logic
    cmanager,          \* the error execute_with_resilience raised
    csurfaced          \* the error the caller received

cliVars == <<capi, fpc, loop_thread, scheduled, craised, cseen, cmanager, csurfaced>>

\* the while loop of split_by_window_size, iteration by iteration
VARIABLES
    lparams,           \* self: start_time, end_time
    lwindow,           \* window_size
    loop_start,        \* current_start
    appended,          \* len(partitions), counted up to MaxDuration + 1
    lpc                \* idle | loop | returned | raised

loopVars == <<lparams, lwindow, loop_start, appended, lpc>>

\* what the actions of one component leave alone
outsideRes == <<streamVars, splitVars, poolVars, serverVars, regVars, codecVars, delayVars, optVars, cliVars, loopVars>>
outsideStream == <<resVars, splitVars, poolVars, serverVars, regVars, codecVars, delayVars, optVars, cliVars, loopVars>>
outsideSplit == <<resVars, streamVars, poolVars, serverVars, regVars, codecVars, delayVars, optVars, cliVars, loopVars>>
outsidePool == <<resVars, streamVars, splitVars, serverVars, regVars, codecVars, delayVars, optVars, cliVars, loopVars>>
outsideServer == <<resVars, streamVars, splitVars, poolVars, regVars, codecVars, delayVars, optVars, cliVars, loopVars>>
outsideReg == <<resVars, streamVars, splitVars, poolVars, serverVars, codecVars, delayVars, optVars, cliVars, loopVars>>
outsideCodec == <<resVars, streamVars, splitVars, poolVars, serverVars, regVars, delayVars, optVars, cliVars, loopVars>>
outsideDelay == <<resVars, streamVars, splitVars, poolVars, serverVars, regVars, codecVars, optVars, cliVars, loopVars>>
outsideOpt == <<resVars, streamVars, splitVars, poolVars, serverVars, regVars, codecVars, delayVars, cliVars, loopVars>>
outsideCli == <<resVars, streamVars, splitVars, poolVars, serverVars, regVars, codecVars, delayVars, optVars, loopVars>>
outsideLoop == <<resVars, streamVars, splitVars, poolVars, serverVars, regVars, codecVars, delayVars, optVars, cliVars>>

vars == <<resVars, streamVars, splitVars, poolVars, serverVars, regVars, codecVars, delayVars, optVars, cliVars, loopVars>>

\* ------------------------------------------------------------ CircuitBreaker
NewBreaker ==
    [state |-> CLOSED, failure_count |-> 0, success_count |-> 0,
     last_failure_time |-> None]

\* check_state with the elapsed-time test written > instead of >=
check_state_gt(b, cfg, current_time) ==
    IF b.state = OPEN
       /\ Truthy(b.last_failure_time)
       /\ current_time - b.last_failure_time > cfg.recovery_timeout
    THEN [b EXCEPT !.state = HALF_OPEN, !.success_count = 0]
    ELSE b

check_state(b, cfg, current_time) ==
    IF b.state = OPEN
       /\ Truthy(b.last_failure_time)
       /\ current_time - b.last_failure_time >= cfg.recovery_timeout
    THEN [b EXCEPT !.state = HALF_OPEN, !.success_count = 0]
    ELSE b

\* on_success with the threshold test written > instead of >=
on_success_gt(b, cfg) ==
    IF b.state = HALF_OPEN
    THEN IF b.success_count + 1 > cfg.success_threshold
         THEN [b EXCEPT !.state = CLOSED, !.failure_count = 0, !.success_count = 0]
         ELSE [b EXCEPT !.success_count = b.success_count + 1]
    ELSE IF b.state = CLOSED
         THEN [b EXCEPT !.failure_count = 0]
         ELSE b

\* on_success counting a success whenever the breaker is not CLOSED
on_success_open(b, cfg) ==
    IF b.state # CLOSED
    THEN IF b.success_count + 1 >= cfg.success_threshold
         THEN [b EXCEPT !.state = CLOSED, !.failure_count = 0, !.success_count = 0]
         ELSE [b EXCEPT !.success_count = b.success_count + 1]
    ELSE [b EXCEPT !.failure_count = 0]

on_success(b, cfg) ==
    IF b.state = HALF_OPEN
    THEN IF b.success_count + 1 >= cfg.success_threshold
         THEN [b EXCEPT !.state = CLOSED, !.failure_count = 0, !.success_count = 0]
         ELSE [b EXCEPT !.success_count = b.success_count + 1]
    ELSE IF b.state = CLOSED
         THEN [b EXCEPT !.failure_count = 0]
         ELSE b

\* the isinstance test answering yes for every exception
is_monitored_any(cfg, kind) == TRUE

is_monitored(cfg, kind) == kind \in cfg.monitored

\* on_failure with the threshold test written > instead of >=
on_failure_gt(b, cfg, kind, current_time) ==
    IF ~is_monitored(cfg, kind)
    THEN b
    ELSE LET c == [b EXCEPT !.failure_count = b.failure_count + 1,
                            !.last_failure_time = current_time]
         IN  IF c.state = CLOSED
             THEN IF c.failure_count > cfg.failure_threshold
                  THEN [c EXCEPT !.state = OPEN]
                  ELSE c
             ELSE IF c.state = HALF_OPEN
                  THEN [c EXCEPT !.state = OPEN]
                  ELSE c

\* on_failure without the HALF_OPEN branch
on_failure_stay(b, cfg, kind, current_time) ==
    IF ~is_monitored(cfg, kind)
    THEN b
    ELSE LET c == [b EXCEPT !.failure_count = b.failure_count + 1,
                            !.last_failure_time = current_time]
         IN  IF c.state = CLOSED /\ c.failure_count >= cfg.failure_threshold
             THEN [c EXCEPT !.state = OPEN]
             ELSE c

on_failure(b, cfg, kind, current_time) ==
    IF ~is_monitored(cfg, kind)
    THEN b
    ELSE LET c == [b EXCEPT !.failure_count = b.failure_count + 1,
                            !.last_failure_time = current_time]
         IN  IF c.state = CLOSED
             THEN IF c.failure_count >= cfg.failure_threshold
                  THEN [c EXCEPT !.state = OPEN]
                  ELSE c
             ELSE IF c.state = HALF_OPEN
                  THEN [c EXCEPT !.state = OPEN]
                  ELSE c

\* ------------------------------------------------------------ RetryConfig
is_retryable_exception(cfg, kind) == kind \in cfg.retryable

\* should_retry without the isinstance test
should_retry_any(cfg, kind, n) ==
    IF n >= cfg.max_attempts
    THEN FALSE
    ELSE TRUE

should_retry(cfg, kind, n) ==
    IF n >= cfg.max_attempts
    THEN FALSE
    ELSE kind \in cfg.retryable

\* ------------------------------------------------------------ ResilienceManager
UsesBreaker(cfg) == cfg.enable_circuit_breaker
UsesRetry(cfg) == cfg.retry

\* the except-branch giving up one attempt early
RetryStepModule_early(cfg, kind, n) ==
    IF ~(n + 1 < cfg.max_attempts /\ kind \in cfg.retryable) THEN "raise"
    ELSE IF n < cfg.max_attempts THEN "sleep" ELSE "exhausted"

\* what the except-branch of _execute_with_retry does with the error of
\* attempt n: "raise" it, "sleep" and go round again, or leave the loop
\* "exhausted"
RetryStepModule(cfg, kind, n) ==
    IF ~should_retry(cfg, kind, n) THEN "raise"
    ELSE IF n < cfg.max_attempts THEN "sleep" ELSE "exhausted"

RetryStepPackage(cfg, kind, n) ==
    IF ~is_retryable_exception(cfg, kind) THEN "raise"
    ELSE IF n < cfg.max_attempts THEN "sleep" ELSE "exhausted"

RetryStep(cfg, kind, n) ==
    IF cfg.impl = "module" THEN RetryStepModule(cfg, kind, n)
    ELSE RetryStepPackage(cfg, kind, n)

\* the wrapped function of attempt attempt[t] raised e (or the breaker
\* rejected the attempt with e)
Raised(t, e) ==
    IF ~UsesRetry(config)
    THEN /\ pc' = [pc EXCEPT ![t] = "returned"]
         /\ outcome' = [outcome EXCEPT ![t] = [status |-> "raised", exc |-> e]]
         /\ UNCHANGED <<sleeps, last_exception>>
    ELSE LET step == RetryStep(config, e.kind, e.at)
         IN  /\ last_exception' = [last_exception EXCEPT ![t] = e]
             /\ CASE step = "raise" ->
                      /\ pc' = [pc EXCEPT ![t] = "returned"]
                      /\ outcome' = [outcome EXCEPT ![t] = [status |-> "raised", exc |-> e]]
                      /\ UNCHANGED sleeps
                  [] step = "sleep" ->
                      /\ pc' = [pc EXCEPT ![t] = "sleeping"]
                      /\ sleeps' = [sleeps EXCEPT ![t] = sleeps[t] + 1]
                      /\ UNCHANGED outcome
                  [] step = "exhausted" ->
                      /\ pc' = [pc EXCEPT ![t] = "returned"]
                      /\ outcome' = [outcome EXCEPT ![t] =
                             [status |-> "raised",
                              exc |-> RetryExhaustedError(config.max_attempts, e)]]
                      /\ UNCHANGED sleeps

\* call without the rejection: the state is checked, func is invoked anyway
Admit_no_reject(t, n) ==
    /\ breaker' = IF UsesBreaker(config) THEN check_state(breaker, config, now) ELSE breaker
    /\ pc' = [pc EXCEPT ![t] = "running"]
    /\ calls' = [calls EXCEPT ![t] = calls[t] + 1]
    /\ UNCHANGED <<sleeps, last_exception, outcome>>

\* CircuitBreaker.call up to the invocation of func: the state check and the
\* rejection under the lock.  n is the attempt being made.
Admit(t, n) ==
    IF UsesBreaker(config)
    THEN LET b == check_state(breaker, config, now)
         IN  /\ breaker' = b
             /\ IF b.state = OPEN
                THEN /\ Raised(t, CircuitOpenError(n, config.recovery_timeout))
                     /\ UNCHANGED calls
                ELSE /\ pc' = [pc EXCEPT ![t] = "running"]
                     /\ calls' = [calls EXCEPT ![t] = calls[t] + 1]
                     /\ UNCHANGED <<sleeps, last_exception, outcome>>
    ELSE /\ pc' = [pc EXCEPT ![t] = "running"]
         /\ calls' = [calls EXCEPT ![t] = calls[t] + 1]
         /\ UNCHANGED <<breaker, sleeps, last_exception, outcome>>

\* no call of the task is inside CircuitBreaker.call, or another call has
\* changed the breaker since this one entered; w: whether the task's calls
\* are followed at all.  at: the state the call was admitted in
NoSnapshot(w) == [watch |-> w, valid |-> FALSE, b |-> NewBreaker, at |-> "none"]

\* the snapshot of another task's call, dropped when this step changes the
\* breaker
Kept(u) ==
    IF breaker' = breaker THEN entry[u]
    ELSE [entry[u] EXCEPT !.valid = FALSE, !.b = NewBreaker]

\* task t enters CircuitBreaker.call and its function is invoked
Entered(t) ==
    [u \in Tasks |->
        IF u = t
        THEN IF entry[t].watch /\ UsesBreaker(config) /\ pc'[t] = "running"
             THEN [watch |-> TRUE, valid |-> TRUE, b |-> breaker, at |-> breaker'.state]
             ELSE NoSnapshot(entry[t].watch)
        ELSE Kept(u)]

\* task t leaves CircuitBreaker.call
Left(t) == [u \in Tasks |-> IF u = t THEN NoSnapshot(entry[t].watch) ELSE Kept(u)]

\* execute_with_resilience is called: the first attempt is made at once
Call(t) ==
    /\ pc[t] = "idle"
    /\ attempt' = [attempt EXCEPT ![t] = 1]
    /\ Admit(t, 1)
    /\ entry' = Entered(t)
    /\ UNCHANGED <<config, now>>
    /\ UNCHANGED outsideRes

\* asyncio.sleep(delay) is over: the loop makes the next attempt
Wake(t) ==
    /\ pc[t] = "sleeping"
    /\ attempt' = [attempt EXCEPT ![t] = attempt[t] + 1]
    /\ Admit(t, attempt[t] + 1)
    /\ entry' = Entered(t)
    /\ UNCHANGED <<config, now>>
    /\ UNCHANGED outsideRes

\* the wrapped function returns: _on_success, and the result goes to the caller
Succeed(t) ==
    /\ pc[t] = "running"
    /\ breaker' = IF UsesBreaker(config) THEN on_success(breaker, config) ELSE breaker
    /\ pc' = [pc EXCEPT ![t] = "returned"]
    /\ outcome' = [outcome EXCEPT ![t] = [status |-> "ok", exc |-> NoExc]]
    /\ entry' = Left(t)
    /\ UNCHANGED <<config, now, attempt, calls, sleeps, last_exception>>
    /\ UNCHANGED outsideRes

\* the composition turned inside out: the breaker wraps the whole retry loop
\* and sees a failure only when the loop gives up
Fail_outer(t, k) ==
    /\ pc[t] = "running"
    /\ breaker.failure_count < MaxFailures
    /\ breaker' = IF UsesBreaker(config)
                     /\ (UsesRetry(config) => RetryStep(config, k, attempt[t]) # "sleep")
                  THEN on_failure(breaker, config, k, now) ELSE breaker
    /\ Raised(t, Exc(k, attempt[t]))
    /\ entry' = Left(t)
    /\ UNCHANGED <<config, now, attempt, calls>>
    /\ UNCHANGED outsideRes

\* the wrapped function raises an error of kind k: _on_failure, then the
\* error reaches the retry loop (or the caller)
Fail(t, k) ==
    /\ pc[t] = "running"
    /\ breaker.failure_count < MaxFailures
    /\ breaker' = IF UsesBreaker(config) THEN on_failure(breaker, config, k, now) ELSE breaker
    /\ Raised(t, Exc(k, attempt[t]))
    /\ entry' = Left(t)
    /\ UNCHANGED <<config, now, attempt, calls>>
    /\ UNCHANGED outsideRes

\* the caller has its result and may call again
Return(t) ==
    /\ pc[t] = "returned"
    /\ pc' = [pc EXCEPT ![t] = "idle"]
    /\ attempt' = [attempt EXCEPT ![t] = 0]
    /\ calls' = [calls EXCEPT ![t] = 0]
    /\ sleeps' = [sleeps EXCEPT ![t] = 0]
    /\ last_exception' = [last_exception EXCEPT ![t] = NoExc]
    /\ outcome' = [outcome EXCEPT ![t] = [status |-> "none", exc |-> NoExc]]
    /\ UNCHANGED <<config, breaker, now, entry>>
    /\ UNCHANGED outsideRes

Tick ==
    /\ now < MaxTime
    /\ now' = now + 1
    /\ UNCHANGED <<config, breaker, pc, attempt, calls, sleeps, last_exception, outcome, entry>>
    /\ UNCHANGED outsideRes

\* ResilienceConfig: retry_config is None or a RetryConfig; the breaker is
\* disabled or has a CircuitBreakerConfig.  The fields of an absent part are
\* never read and are held at their defaults.
BreakerConfigs ==
    [failure_threshold : 1..MaxThreshold,
     recovery_timeout : 0..MaxRecovery,
     success_threshold : 1..MaxThreshold,
     monitored : MonitoredChoices,
     enable_circuit_breaker : {TRUE}]
    \cup
    [failure_threshold : {1}, recovery_timeout : {1}, success_threshold : {1},
     monitored : {DefaultMonitored}, enable_circuit_breaker : {FALSE}]

RetryConfigs ==
    [max_attempts : 1..MaxAttempts,
     retryable : RetryableChoices,
     retry : {TRUE},
     impl : {"module", "package"}]
    \cup
    [max_attempts : {1}, retryable : {DefaultRetryable}, retry : {FALSE},
     impl : {"module"}]

Merge(b, r) ==
    [failure_threshold |-> b.failure_threshold,
     recovery_timeout |-> b.recovery_timeout,
     success_threshold |-> b.success_threshold,
     monitored |-> b.monitored,
     enable_circuit_breaker |-> b.enable_circuit_breaker,
     max_attempts |-> r.max_attempts,
     retryable |-> r.retryable,
     retry |-> r.retry,
     impl |-> r.impl]

Configs == {Merge(b, r) : b \in BreakerConfigs, r \in RetryConfigs}

ResStart(w) ==
    /\ config \in Configs
    /\ breaker = NewBreaker
    /\ now = 1
    /\ pc = [t \in Tasks |-> "idle"]
    /\ attempt = [t \in Tasks |-> 0]
    /\ calls = [t \in Tasks |-> 0]
    /\ sleeps = [t \in Tasks |-> 0]
    /\ last_exception = [t \in Tasks |-> NoExc]
    /\ outcome = [t \in Tasks |-> [status |-> "none", exc |-> NoExc]]
    /\ entry = [t \in Tasks |-> NoSnapshot(w)]

ResInit == ResStart(FALSE)

ResNext ==
    \/ \E t \in Tasks : Call(t)
    \/ \E t \in Tasks : Wake(t)
    \/ \E t \in Tasks : Succeed(t)
    \/ \E t \in Tasks, k \in FuncKinds : Fail(t, k)
    \/ \E t \in Tasks : Return(t)
    \/ Tick

\* ------------------------------------------------------------ DistributedTimeSeriesService
\* partitions are numbered as enumerate(futures) numbers them
Parts(n) == 0..(n - 1)

Min(S) == CHOOSE x \in S : \A y \in S : x <= y

\* the orders in which a pass over a set can visit its members
Orders(S) ==
    {f \in [1..Cardinality(S) -> S] : \A i, j \in 1..Cardinality(S) : f[i] = f[j] => i = j}

\* get_batches with the ray or asyncio backend goes through _stream_results
UsesStreamResults(c) == c.api = "sync" /\ c.backend \in {"ray", "asyncio"}
\* aget_batches with the ray backend: _stream_ray_results_ordered / _unordered
UsesRayAsync(c) == c.api = "async" /\ c.backend = "ray"
\* both keep the ready results of finished futures
Buffered(c) == UsesStreamResults(c) \/ UsesRayAsync(c)
\* off Ray a partition's result is a generator: its batches are produced, and
\* its errors raised, while the merge iterates it
Lazy(c) == c.backend # "ray"
\* the single-threaded loops take the partitions in list order whatever
\* preserve_order says
Ordered(c) == c.preserve_order \/ c.backend = "single_threaded"

StreamConfigs ==
    [backend : {"ray", "asyncio", "single_threaded"},
     api : {"sync", "async"},
     preserve_order : BOOLEAN,
     nparts : 1..MaxParts]

StreamInit ==
    /\ sconf \in StreamConfigs
    /\ worker = [i \in Parts(sconf.nparts) |->
                    IF sconf.backend = "single_threaded" THEN "done" ELSE "running"]
    /\ nbatches = [i \in Parts(sconf.nparts) |-> 0]
    /\ failed = {}
    /\ pending = Parts(sconf.nparts)
    /\ ready = <<>>
    /\ results = {}
    /\ next_expected_idx = 0
    /\ cur = None
    /\ pos = 0
    /\ emitted = <<>>
    /\ spc = "poll"

StreamIdle ==
    /\ sconf = [backend |-> "single_threaded", api |-> "sync",
                preserve_order |-> TRUE, nparts |-> 1]
    /\ worker = [i \in Parts(1) |-> "done"]
    /\ nbatches = [i \in Parts(1) |-> 0]
    /\ failed = {}
    /\ pending = {}
    /\ ready = <<>>
    /\ results = {}
    /\ next_expected_idx = 0
    /\ cur = None
    /\ pos = 0
    /\ emitted = <<>>
    /\ spc = "idle"

\* process_partition_remote finishes on a Ray worker: it returns the list of
\* the b batches the service yielded (all of them, or those before it raised)
RayTaskDone(i, b) ==
    /\ sconf.backend = "ray"
    /\ worker[i] = "running"
    /\ worker' = [worker EXCEPT ![i] = "done"]
    /\ nbatches' = [nbatches EXCEPT ![i] = b]
    /\ UNCHANGED <<sconf, failed, pending, ready, results, next_expected_idx,
                   cur, pos, emitted, spc>>
    /\ UNCHANGED outsideStream

\* the Ray task is lost: ray.get on its ObjectRef will raise
RayTaskCrash(i) ==
    /\ sconf.backend = "ray"
    /\ worker[i] = "running"
    /\ worker' = [worker EXCEPT ![i] = "crashed"]
    /\ UNCHANGED <<sconf, nbatches, failed, pending, ready, results,
                   next_expected_idx, cur, pos, emitted, spc>>
    /\ UNCHANGED outsideStream

\* the pool thread has run the submitted function: the future holds the
\* partition's generator
ThreadDone(i) ==
    /\ sconf.backend = "asyncio"
    /\ worker[i] = "running"
    /\ worker' = [worker EXCEPT ![i] = "done"]
    /\ UNCHANGED <<sconf, nbatches, failed, pending, ready, results,
                   next_expected_idx, cur, pos, emitted, spc>>
    /\ UNCHANGED outsideStream

\* sync_process_single_batch raised in the pool thread (the service could not
\* be built): awaiting the future raises.  The sync path submits a generator
\* function, whose future cannot fail.
ThreadCrash(i) ==
    /\ sconf.backend = "asyncio" /\ sconf.api = "async"
    /\ worker[i] = "running"
    /\ worker' = [worker EXCEPT ![i] = "crashed"]
    /\ UNCHANGED <<sconf, nbatches, failed, pending, ready, results,
                   next_expected_idx, cur, pos, emitted, spc>>
    /\ UNCHANGED outsideStream

Finished(i) == worker[i] # "running"

\* one pass of _stream_ready_futures over pending.  _get_ray_result does not
\* block; f.result() does, so the pass ends with every pending future taken.
PollStreamResults ==
    /\ UsesStreamResults(sconf)
    /\ spc = "poll"
    /\ pending # {}
    /\ LET cand == {i \in pending : Finished(i)}
           ok == {i \in cand : worker[i] = "done"}
       IN  /\ cand # {}
           /\ sconf.backend = "asyncio" => cand = pending
           /\ pending' = pending \ cand
           /\ failed' = failed \cup (cand \ ok)
           /\ \E order \in Orders(ok) : ready' = order
           /\ spc' = IF ok = {} THEN "poll" ELSE "handle"
    /\ UNCHANGED <<sconf, worker, nbatches, results, next_expected_idx, cur, pos, emitted>>
    /\ UNCHANGED outsideStream

\* ray.wait(list(pending), num_returns=1): one finished task, then ray.get
PollRayAsync ==
    /\ UsesRayAsync(sconf)
    /\ spc = "poll"
    /\ \E i \in pending :
          /\ Finished(i)
          /\ pending' = pending \ {i}
          /\ IF worker[i] = "crashed"
             THEN /\ failed' = failed \cup {i}
                  /\ UNCHANGED <<ready, spc>>
             ELSE /\ ready' = <<i>>
                  /\ spc' = "handle"
                  /\ UNCHANGED failed
    /\ UNCHANGED <<sconf, worker, nbatches, results, next_expected_idx, cur, pos, emitted>>
    /\ UNCHANGED outsideStream

\* the loops that take one partition at a time: single-threaded (list order,
\* run in the caller), asyncio ordered (await the futures in list order),
\* asyncio unordered (asyncio.as_completed)
PollSequential ==
    /\ ~Buffered(sconf)
    /\ spc = "poll"
    /\ \E i \in pending :
          /\ Ordered(sconf) => i = Min(pending)
          /\ Finished(i)
          /\ pending' = pending \ {i}
          /\ IF worker[i] = "crashed"
             THEN /\ failed' = failed \cup {i}
                  /\ UNCHANGED <<cur, pos, spc>>
             ELSE /\ cur' = i
                  /\ pos' = 0
                  /\ spc' = "emit"
                  /\ UNCHANGED failed
    /\ UNCHANGED <<sconf, worker, nbatches, ready, results, next_expected_idx, emitted>>
    /\ UNCHANGED outsideStream

\* while pending: is false
Finish ==
    /\ spc = "poll"
    /\ pending = {}
    /\ spc' = "done"
    /\ UNCHANGED <<sconf, worker, nbatches, failed, pending, ready, results,
                   next_expected_idx, cur, pos, emitted>>
    /\ UNCHANGED outsideStream

\* handle_ready: the next (future, batches) pair of ready_futures
HandleReady ==
    /\ Buffered(sconf)
    /\ spc = "handle"
    /\ IF ready = <<>>
       THEN /\ spc' = "poll"
            /\ UNCHANGED <<ready, results, cur, pos>>
       ELSE /\ ready' = Tail(ready)
            /\ IF sconf.preserve_order
               THEN /\ results' = results \cup {Head(ready)}
                    /\ spc' = "drain"
                    /\ UNCHANGED <<cur, pos>>
               ELSE /\ cur' = Head(ready)
                    /\ pos' = 0
                    /\ spc' = "emit"
                    /\ UNCHANGED results
    /\ UNCHANGED <<sconf, worker, nbatches, failed, pending, next_expected_idx, emitted>>
    /\ UNCHANGED outsideStream

\* the drain loop popping whatever result is there
Drain_any ==
    /\ spc = "drain"
    /\ IF results # {}
       THEN \E i \in results :
               /\ results' = results \ {i}
               /\ cur' = i
               /\ pos' = 0
               /\ spc' = "emit"
       ELSE /\ spc' = "handle"
            /\ UNCHANGED <<results, cur, pos>>
    /\ UNCHANGED <<sconf, worker, nbatches, failed, pending, ready, next_expected_idx, emitted>>
    /\ UNCHANGED outsideStream

\* while next_expected_idx in results: results.pop(next_expected_idx)
Drain ==
    /\ spc = "drain"
    /\ IF next_expected_idx \in results
       THEN /\ results' = results \ {next_expected_idx}
            /\ cur' = next_expected_idx
            /\ pos' = 0
            /\ spc' = "emit"
       ELSE /\ spc' = "handle"
            /\ UNCHANGED <<results, cur, pos>>
    /\ UNCHANGED <<sconf, worker, nbatches, failed, pending, ready, next_expected_idx, emitted>>
    /\ UNCHANGED outsideStream

\* whether the batches of cur have another batch after the pos yielded: a
\* Ray result is a list of nbatches[cur]; a generator decides as it goes
HasNext(more) ==
    IF Lazy(sconf) THEN more /\ pos < MaxBatches ELSE pos < nbatches[cur]

\* yield batch
EmitBatch ==
    /\ spc = "emit"
    /\ HasNext(TRUE)
    /\ emitted' = Append(emitted, <<cur, pos + 1>>)
    /\ pos' = pos + 1
    /\ UNCHANGED <<sconf, worker, nbatches, failed, pending, ready, results,
                   next_expected_idx, cur, spc>>
    /\ UNCHANGED outsideStream

\* where the merge goes once the batches of cur are over
AfterPartition ==
    IF ~Buffered(sconf) THEN "poll"
    ELSE IF sconf.preserve_order THEN "drain" ELSE "handle"

\* the for loop over the batches of cur ends, next_expected_idx left as it was
EndPartition_stuck ==
    /\ spc = "emit"
    /\ ~HasNext(FALSE)
    /\ spc' = AfterPartition
    /\ cur' = None
    /\ pos' = 0
    /\ UNCHANGED <<sconf, worker, nbatches, failed, pending, ready, results,
                   next_expected_idx, emitted>>
    /\ UNCHANGED outsideStream

\* the for loop over the batches of cur ends
EndPartition ==
    /\ spc = "emit"
    /\ ~HasNext(FALSE)
    /\ next_expected_idx' =
          IF Buffered(sconf) /\ sconf.preserve_order
          THEN next_expected_idx + 1 ELSE next_expected_idx
    /\ spc' = AfterPartition
    /\ cur' = None
    /\ pos' = 0
    /\ UNCHANGED <<sconf, worker, nbatches, failed, pending, ready, results, emitted>>
    /\ UNCHANGED outsideStream

\* where the merge goes when iterating cur's generator raises: the
\* one-at-a-time loops catch it and continue; _stream_results has no handler
\* around the iteration, so the error leaves the merged generator
AfterServiceError == IF Buffered(sconf) THEN "aborted" ELSE "poll"

\* the service raises while the merge iterates its generator
ServiceError ==
    /\ spc = "emit"
    /\ Lazy(sconf)
    /\ failed' = failed \cup {cur}
    /\ spc' = AfterServiceError
    /\ cur' = None
    /\ pos' = 0
    /\ UNCHANGED <<sconf, worker, nbatches, pending, ready, results,
                   next_expected_idx, emitted>>
    /\ UNCHANGED outsideStream

StreamNext ==
    \/ \E i \in Parts(sconf.nparts), b \in 0..MaxBatches : RayTaskDone(i, b)
    \/ \E i \in Parts(sconf.nparts) : RayTaskCrash(i)
    \/ \E i \in Parts(sconf.nparts) : ThreadDone(i)
    \/ \E i \in Parts(sconf.nparts) : ThreadCrash(i)
    \/ PollStreamResults
    \/ PollRayAsync
    \/ PollSequential
    \/ Finish
    \/ HandleReady
    \/ Drain
    \/ EmitBatch
    \/ EndPartition
    \/ ServiceError

\* the client at rest under the default configuration
ResIdle ==
    /\ ResInit
    /\ config = Merge([failure_threshold |-> 1, recovery_timeout |-> 1,
                       success_threshold |-> 1, monitored |-> DefaultMonitored,
                       enable_circuit_breaker |-> TRUE],
                      [max_attempts |-> 1, retryable |-> DefaultRetryable,
                       retry |-> TRUE, impl |-> "module"])

\* ------------------------------------------------------------ TimeSeriesParams
\* datetimes and timedeltas are whole numbers of microseconds

time_range_duration(p) == p.end_time - p.start_time

\* timedelta / int rounds to the nearest microsecond, halves to even
RoundHalfEven(a, n) ==
    LET q == a \div n
        r == a % n
    IN  IF 2 * r < n THEN q
        ELSE IF 2 * r > n THEN q + 1
        ELSE IF q % 2 = 0 THEN q ELSE q + 1

\* model_copy(update={"start_time": ..., "end_time": ...})
model_copy(p, start, end) == [p EXCEPT !.start_time = start, !.end_time = end]

\* the loop without the last iteration's end forced to end_time
RECURSIVE time_windows_loop_even(_, _, _, _, _, _)
time_windows_loop_even(p, n, w, i, current_start, acc) ==
    IF i >= n THEN acc
    ELSE time_windows_loop_even(p, n, w, i + 1, current_start + w,
                                Append(acc, model_copy(p, current_start, current_start + w)))

\* for i in range(num_partitions), from iteration i on
RECURSIVE time_windows_loop(_, _, _, _, _, _)
time_windows_loop(p, n, w, i, current_start, acc) ==
    IF i >= n THEN acc
    ELSE LET current_end == IF i = n - 1 THEN p.end_time ELSE current_start + w
         IN  time_windows_loop(p, n, w, i + 1, current_end,
                               Append(acc, model_copy(p, current_start, current_end)))

split_by_time_windows(p, n) ==
    IF n <= 0 THEN [raised |-> TRUE, partitions |-> <<>>]
    ELSE IF n = 1 THEN [raised |-> FALSE, partitions |-> <<p>>]
    ELSE [raised |-> FALSE,
          partitions |-> time_windows_loop(p, n, RoundHalfEven(time_range_duration(p), n),
                                           0, p.start_time, <<>>)]

\* the loop without min(..., self.end_time)
RECURSIVE window_size_loop_whole(_, _, _, _)
window_size_loop_whole(p, w, current_start, acc) ==
    IF current_start < p.end_time
    THEN window_size_loop_whole(p, w, current_start + w,
                                Append(acc, model_copy(p, current_start, current_start + w)))
    ELSE acc

\* while current_start < self.end_time (window_size > 0: with a window of 0
\* or less the loop never ends)
RECURSIVE window_size_loop(_, _, _, _)
window_size_loop(p, w, current_start, acc) ==
    IF current_start < p.end_time
    THEN LET current_end == IF current_start + w <= p.end_time
                            THEN current_start + w ELSE p.end_time
         IN  window_size_loop(p, w, current_end,
                              Append(acc, model_copy(p, current_start, current_end)))
    ELSE acc

split_by_window_size(p, w) == window_size_loop(p, w, p.start_time, <<>>)

\* math.ceil(a / b), b > 0
Ceil(a, b) == -((-a) \div b)

Max(S) == CHOOSE x \in S : \A y \in S : x >= y

\* get_optimal_partitions without the cap by max_workers
get_optimal_partitions_uncapped(p, points, workers, target) ==
    IF points = None
    THEN split_by_time_windows(p, Min({workers, FallbackPartitions}))
    ELSE split_by_time_windows(p, Max({1, Ceil(points, target)}))

\* TimeSeriesParams.get_optimal_partitions, points what
\* estimate_data_points() returns
get_optimal_partitions(p, points, workers, target) ==
    IF points = None
    THEN split_by_time_windows(p, Min({workers, FallbackPartitions}))
    ELSE split_by_time_windows(p, Max({1, Min({workers, Ceil(points, target)})}))

\* the arguments of the split methods vary with those of
\* get_optimal_partitions at their defaults, and the other way round
SplitInit ==
    /\ \E s \in 0..MaxStart, d \in 0..MaxDuration :
          params = [start_time |-> s, end_time |-> s + d]
    /\ \/ /\ num_partitions \in 0..MaxSplit
          /\ window_size \in 1..MaxWindow
          /\ max_workers = 1
          /\ target_points_per_partition = 1
          /\ estimated_points = None
       \/ /\ num_partitions = 1
          /\ window_size = 1
          /\ max_workers \in 1..MaxWorkers
          /\ target_points_per_partition \in 1..MaxTarget
          /\ estimated_points \in {None} \cup 0..MaxPoints
    /\ partitions = <<>>
    /\ tpc = "call"
    /\ method = "none"

SplitIdle ==
    /\ params = [start_time |-> 0, end_time |-> 0]
    /\ num_partitions = 1
    /\ window_size = 1
    /\ partitions = <<>>
    /\ tpc = "idle"
    /\ max_workers = 1
    /\ target_points_per_partition = 1
    /\ estimated_points = None
    /\ method = "none"

SplitByTimeWindows ==
    /\ tpc = "call"
    /\ LET r == split_by_time_windows(params, num_partitions)
       IN  /\ partitions' = r.partitions
           /\ tpc' = IF r.raised THEN "raised" ELSE "returned"
    /\ method' = "split_by_time_windows"
    /\ UNCHANGED <<params, num_partitions, window_size, max_workers,
                   target_points_per_partition, estimated_points>>
    /\ UNCHANGED outsideSplit

SplitByWindowSize ==
    /\ tpc = "call"
    /\ partitions' = split_by_window_size(params, window_size)
    /\ tpc' = "returned"
    /\ method' = "split_by_window_size"
    /\ UNCHANGED <<params, num_partitions, window_size, max_workers,
                   target_points_per_partition, estimated_points>>
    /\ UNCHANGED outsideSplit

GetOptimalPartitions ==
    /\ tpc = "call"
    /\ LET r == get_optimal_partitions(params, estimated_points, max_workers,
                                       target_points_per_partition)
       IN  /\ partitions' = r.partitions
           /\ tpc' = IF r.raised THEN "raised" ELSE "returned"
    /\ method' = "get_optimal_partitions"
    /\ UNCHANGED <<params, num_partitions, window_size, max_workers,
                   target_points_per_partition, estimated_points>>
    /\ UNCHANGED outsideSplit

SplitNext ==
    \/ SplitByTimeWindows
    \/ SplitByWindowSize
    \/ GetOptimalPartitions

\* ------------------------------------------------------------ FlightClientPool
Handles == 1..pool_size

\* the pool and its callers before any call
PoolStart(size) ==
    /\ pool_size = size
    /\ queue = [h \in 1..size |-> h]
    /\ client = [c \in Callers |-> None]
    /\ reader = [c \in Callers |-> None]
    /\ timeout = [c \in Callers |-> FALSE]
    /\ op = [c \in Callers |-> "table"]
    /\ ppc = [c \in Callers |-> "idle"]
    /\ closed = {}
    /\ closing = None
    /\ cpc = "idle"

PoolInit == \E size \in 1..MaxPool : PoolStart(size)

PoolIdle == PoolStart(1)

\* a caller enters acquire / acquire_async, through aget_pa_table and the
\* like (o = "table") or through aget_stream_reader / get_stream_reader
\* (o = "reader"), with a timeout (t) or without
PoolAcquire(c, t, o) ==
    /\ ppc[c] \in {"idle", "out", "exhausted"}
    /\ reader[c] = None
    /\ ppc' = [ppc EXCEPT ![c] = "waiting"]
    /\ timeout' = [timeout EXCEPT ![c] = t]
    /\ op' = [op EXCEPT ![c] = o]
    /\ UNCHANGED <<pool_size, queue, client, reader, closed, closing, cpc>>
    /\ UNCHANGED outsidePool

\* queue.get() gives the caller the oldest handle
PoolGet(c) ==
    /\ ppc[c] = "waiting"
    /\ queue # <<>>
    /\ client' = [client EXCEPT ![c] = Head(queue)]
    /\ queue' = Tail(queue)
    /\ ppc' = [ppc EXCEPT ![c] = "scope"]
    /\ UNCHANGED <<pool_size, reader, timeout, op, closed, closing, cpc>>
    /\ UNCHANGED outsidePool

\* a timed-out acquire that takes a handle with it
PoolTimeout_take(c) ==
    /\ ppc[c] = "waiting"
    /\ timeout[c]
    /\ queue' = IF queue = <<>> THEN queue ELSE Tail(queue)
    /\ ppc' = [ppc EXCEPT ![c] = "exhausted"]
    /\ UNCHANGED <<pool_size, client, reader, timeout, op, closed, closing, cpc>>
    /\ UNCHANGED outsidePool

\* wait_for cancels queue.get(): FastFlightResourceExhaustionError.  A
\* cancelled get takes nothing; with a timeout of 0 it is cancelled before it
\* looks at the queue.
PoolTimeout(c) ==
    /\ ppc[c] = "waiting"
    /\ timeout[c]
    /\ ppc' = [ppc EXCEPT ![c] = "exhausted"]
    /\ UNCHANGED <<pool_size, queue, client, reader, timeout, op, closed, closing, cpc>>
    /\ UNCHANGED outsidePool

\* reader = client.do_get(flight_ticket)
DoGet(c) ==
    /\ ppc[c] = "scope"
    /\ reader' = [reader EXCEPT ![c] = client[c]]
    /\ ppc' = [ppc EXCEPT ![c] = "got"]
    /\ UNCHANGED <<pool_size, queue, client, timeout, op, closed, closing, cpc>>
    /\ UNCHANGED outsidePool

\* callback(reader): reader.read_all() consumes the stream inside the scope;
\* the identity callback of aget_stream_reader, and get_stream_reader's
\* return, hand the open reader to the caller
Callback(c) ==
    /\ ppc[c] = "got"
    /\ reader' = [reader EXCEPT ![c] = IF op[c] = "table" THEN None ELSE reader[c]]
    /\ ppc' = [ppc EXCEPT ![c] = "read"]
    /\ UNCHANGED <<pool_size, queue, client, timeout, op, closed, closing, cpc>>
    /\ UNCHANGED outsidePool

\* finally: queue.put(client), the scope left normally
Release(c) ==
    /\ ppc[c] = "read"
    /\ queue' = Append(queue, client[c])
    /\ client' = [client EXCEPT ![c] = None]
    /\ ppc' = [ppc EXCEPT ![c] = "out"]
    /\ UNCHANGED <<pool_size, reader, timeout, op, closed, closing, cpc>>
    /\ UNCHANGED outsidePool

\* do_get or the callback raises: except logs and re-raises, finally puts the
\* handle back
ReleaseOnError(c) ==
    /\ ppc[c] \in {"scope", "got"}
    /\ queue' = Append(queue, client[c])
    /\ client' = [client EXCEPT ![c] = None]
    /\ reader' = [reader EXCEPT ![c] = None]
    /\ ppc' = [ppc EXCEPT ![c] = "out"]
    /\ UNCHANGED <<pool_size, timeout, op, closed, closing, cpc>>
    /\ UNCHANGED outsidePool

\* the caller reads the reader it was handed to the end (read_all of
\* get_pa_table, the chunks of aget_stream)
ReadReturnedReader(c) ==
    /\ ppc[c] = "out"
    /\ reader[c] # None
    /\ reader' = [reader EXCEPT ![c] = None]
    /\ UNCHANGED <<pool_size, queue, client, timeout, op, ppc, closed, closing, cpc>>
    /\ UNCHANGED outsidePool

\* close_async is called
CloseStart ==
    /\ cpc = "idle"
    /\ cpc' = "loop"
    /\ UNCHANGED <<pool_size, queue, client, reader, timeout, op, ppc, closed, closing>>
    /\ UNCHANGED outsidePool

\* while not self.queue.empty(): client = await self.queue.get()
CloseGet ==
    /\ cpc = "loop"
    /\ closing = None
    /\ queue # <<>>
    /\ closing' = Head(queue)
    /\ queue' = Tail(queue)
    /\ UNCHANGED <<pool_size, client, reader, timeout, op, ppc, closed, cpc>>
    /\ UNCHANGED outsidePool

\* await asyncio.to_thread(client.close)
CloseClient ==
    /\ cpc = "loop"
    /\ closing # None
    /\ closed' = closed \cup {closing}
    /\ closing' = None
    /\ UNCHANGED <<pool_size, queue, client, reader, timeout, op, ppc, cpc>>
    /\ UNCHANGED outsidePool

\* the queue is found empty: close_async returns
CloseEnd ==
    /\ cpc = "loop"
    /\ closing = None
    /\ queue = <<>>
    /\ cpc' = "closed"
    /\ UNCHANGED <<pool_size, queue, client, reader, timeout, op, ppc, closed, closing>>
    /\ UNCHANGED outsidePool

PoolNext ==
    \/ \E c \in Callers, t \in BOOLEAN, o \in {"table", "reader"} : PoolAcquire(c, t, o)
    \/ \E c \in Callers : PoolGet(c)
    \/ \E c \in Callers : PoolTimeout(c)
    \/ \E c \in Callers : DoGet(c)
    \/ \E c \in Callers : Callback(c)
    \/ \E c \in Callers : Release(c)
    \/ \E c \in Callers : ReleaseOnError(c)
    \/ \E c \in Callers : ReadReturnedReader(c)
    \/ CloseStart
    \/ CloseGet
    \/ CloseClient
    \/ CloseEnd

\* ------------------------------------------------------------ FastFlightServer, FlightServer
\* what a ticket can be: undecodable bytes, a tag no parameter type is
\* registered for, a parameter type no service is bound to, or resolvable
TicketTags == {"bad", "unknown_param", "no_service", "ok"}

\* the decoded parameter: not a time series, or a time series whose
\* estimate_data_points() is None, at most 1000, or above 1000
ParamKinds == {"plain", "ts_none", "ts_small", "ts_large"}

Tickets == [tag : TicketTags, param : ParamKinds]

\* a service implements get_batches (sync) or only aget_batches (async); it
\* yields total batches and then ends or raises
Services == [kind : {"sync", "async"}, total : 0..MaxServed, raises : BOOLEAN]

ServerStart(srv, t, svc) ==
    /\ server = srv
    /\ ticket = t
    /\ service = svc
    /\ rpc = "received"
    /\ called = "none"
    /\ produced = <<>>
    /\ producer = "none"
    /\ bridge = <<>>
    /\ first_batch = None
    /\ schema = FALSE
    /\ sent = <<>>
    /\ status = "pending"
    /\ detail = "none"

\* the services of FlightServer implement aget_batches only
ServerInit ==
    \E srv \in {"server", "flight_server"}, t \in Tickets, svc \in Services :
        /\ srv = "flight_server" => svc.kind = "async"
        /\ ServerStart(srv, t, svc)

ServerIdle ==
    ServerStart("server", [tag |-> "ok", param |-> "plain"],
                [kind |-> "sync", total |-> 0, raises |-> FALSE])

\* the transport error a ticket that does not resolve is answered with.
\* FastFlightServer._resolve_ticket turns every exception into
\* FlightInternalError; FlightServer.load_params_and_data_service turns the
\* ValueError of the service lookup into FlightUnavailableError and lets the
\* rest reach do_get, which answers FlightInternalError.
ResolveError(srv, tag) ==
    IF srv = "flight_server" /\ tag = "no_service" THEN "Unavailable" ELSE "Internal"

\* _resolve_ticket / load_params_and_data_service, with do_get's handlers
ResolveTicket ==
    /\ rpc = "received"
    /\ IF ticket.tag = "ok"
       THEN /\ rpc' = "resolved"
            /\ UNCHANGED <<status, detail>>
       ELSE /\ rpc' = "failed"
            /\ status' = ResolveError(server, ticket.tag)
            /\ detail' = "ticket"
    /\ UNCHANGED <<server, ticket, service, called, produced, producer, bridge,
                   first_batch, schema, sent>>
    /\ UNCHANGED outsideServer

\* _get_batch_reader calls data_service.get_batches(params, batch_size) or,
\* on NotImplementedError, bridges data_service.aget_batches(...): the
\* resolved service itself, whatever the parameter
GetBatches ==
    /\ rpc = "resolved"
    /\ called' = "direct"
    /\ producer' = IF service.kind = "async" THEN "running" ELSE "none"
    /\ rpc' = "first"
    /\ UNCHANGED <<server, ticket, service, produced, bridge, first_batch, schema,
                   sent, status, detail>>
    /\ UNCHANGED outsideServer

\* _iterate over a queue of one slot: put waits until the reader has taken
\* the last item
ProducerPut_bounded ==
    /\ producer = "running"
    /\ bridge = <<>>
    /\ Len(produced) < service.total
    /\ produced' = Append(produced, Len(produced) + 1)
    /\ bridge' = Append(bridge, Len(produced) + 1)
    /\ UNCHANGED <<server, ticket, service, rpc, called, producer, first_batch,
                   schema, sent, status, detail>>
    /\ UNCHANGED outsideServer

\* _iterate: async for item in aiter: await queue.put(item)
ProducerPut ==
    /\ producer = "running"
    /\ Len(produced) < service.total
    /\ produced' = Append(produced, Len(produced) + 1)
    /\ bridge' = Append(bridge, Len(produced) + 1)
    /\ UNCHANGED <<server, ticket, service, rpc, called, producer, first_batch,
                   schema, sent, status, detail>>
    /\ UNCHANGED outsideServer

\* _iterate: the async iterator is over: await queue.put(None); or it raises
\* and the task dies with nothing put
ProducerEnd ==
    /\ producer = "running"
    /\ Len(produced) = service.total
    /\ IF service.raises
       THEN /\ producer' = "died"
            /\ UNCHANGED bridge
       ELSE /\ producer' = "ended"
            /\ bridge' = Append(bridge, None)
    /\ UNCHANGED <<server, ticket, service, rpc, called, produced, first_batch,
                   schema, sent, status, detail>>
    /\ UNCHANGED outsideServer

PullResults ==
    [kind : {"batch"}, batch : 1..MaxServed] \cup [kind : {"stop", "raise"}, batch : {None}]

\* next(batch_iter) giving r: the generator of a sync service runs to its
\* next yield; the bridge waits for queue.get() and stops at None
Pull(r) ==
    IF service.kind = "sync"
    THEN /\ UNCHANGED bridge
         /\ IF Len(produced) < service.total
            THEN /\ r = [kind |-> "batch", batch |-> Len(produced) + 1]
                 /\ produced' = Append(produced, Len(produced) + 1)
            ELSE /\ r = [kind |-> IF service.raises THEN "raise" ELSE "stop", batch |-> None]
                 /\ UNCHANGED produced
    ELSE /\ bridge # <<>>
         /\ bridge' = Tail(bridge)
         /\ UNCHANGED produced
         /\ r = IF Head(bridge) = None
                THEN [kind |-> "stop", batch |-> None]
                ELSE [kind |-> "batch", batch |-> Head(bridge)]

\* what the message of the Internal error for a service without batches
\* reports: "Data service returned no batches." in FastFlightServer; the
\* empty str() of StopIteration in FlightServer
EmptyDetail(srv) == IF srv = "server" THEN "no_batches" ELSE "nothing"

\* first_batch = next(batch_iter), and the handlers around it
FirstBatch ==
    /\ rpc = "first"
    /\ \E r \in PullResults :
          /\ Pull(r)
          /\ IF r.kind = "batch"
             THEN /\ first_batch' = r.batch
                  /\ schema' = TRUE
                  /\ status' = "stream"
                  /\ rpc' = "stream_first"
                  /\ UNCHANGED detail
             ELSE /\ status' = "Internal"
                  /\ detail' = IF r.kind = "stop" THEN EmptyDetail(server) ELSE "service_error"
                  /\ rpc' = "failed"
                  /\ UNCHANGED <<first_batch, schema>>
    /\ UNCHANGED <<server, ticket, service, called, producer, sent>>
    /\ UNCHANGED outsideServer

\* the reader over batch_iter alone, the first batch left out
SendFirst_skip ==
    /\ rpc = "stream_first"
    /\ rpc' = "stream_rest"
    /\ UNCHANGED <<server, ticket, service, called, produced, producer, bridge,
                   first_batch, schema, sent, status, detail>>
    /\ UNCHANGED outsideServer

\* itertools.chain((first_batch,), batch_iter): the first batch goes out
SendFirst ==
    /\ rpc = "stream_first"
    /\ sent' = Append(sent, first_batch)
    /\ rpc' = "stream_rest"
    /\ UNCHANGED <<server, ticket, service, called, produced, producer, bridge,
                   first_batch, schema, status, detail>>
    /\ UNCHANGED outsideServer

\* the transport reads the next batch of the chain
SendNext ==
    /\ rpc = "stream_rest"
    /\ \E r \in PullResults :
          /\ Pull(r)
          /\ IF r.kind = "batch"
             THEN /\ sent' = Append(sent, r.batch)
                  /\ UNCHANGED <<rpc, status>>
             ELSE /\ rpc' = IF r.kind = "stop" THEN "done" ELSE "aborted"
                  /\ status' = rpc'
                  /\ UNCHANGED sent
    /\ UNCHANGED <<server, ticket, service, called, producer, first_batch, schema, detail>>
    /\ UNCHANGED outsideServer

ServerNext ==
    \/ ResolveTicket
    \/ GetBatches
    \/ ProducerPut
    \/ ProducerEnd
    \/ FirstBatch
    \/ SendFirst
    \/ SendNext

\* ------------------------------------------------------------ RegistryManager
ParamTypes == {"SampleParams", "OtherParams"}
ServiceTypes == {"SampleDataService", "OtherDataService"}
Aliases == {"sample_params", "other_params"}

\* alias=None
NoAlias == ""

\* what dict.get returns for a key that is absent
Missing == "None"

\* f"{params_cls.__module__}.{params_cls.__qualname__}"
params_qual_name(params_cls) ==
    CASE params_cls = "SampleParams" -> "tests.test_data_service.SampleParams"
      [] params_cls = "OtherParams" -> "tests.test_data_service.OtherParams"

QualNames == {params_qual_name(p) : p \in ParamTypes}

\* the strings the callers pass as names
Names == QualNames \cup Aliases \cup {"non_existent"}

RegStart ==
    /\ params_registry = [n \in Names |-> Missing]
    /\ service_registry = [n \in Names |-> Missing]
    /\ alias_registry = [n \in Names |-> Missing]
    /\ reg_raised = "none"

RegInit == RegStart

RegIdle == RegStart

\* RegistryManager.register_params
RegisterParams(params_cls, alias) ==
    LET qual_name == params_qual_name(params_cls) IN
    /\ params_registry' = [params_registry EXCEPT ![qual_name] = params_cls]
    /\ alias_registry' = IF alias # NoAlias
                         THEN [alias_registry EXCEPT ![alias] = qual_name]
                         ELSE alias_registry
    /\ reg_raised' = "none"
    /\ UNCHANGED service_registry
    /\ UNCHANGED outsideReg

\* RegistryManager.register_service
RegisterService(params_cls, service_cls, alias) ==
    LET qn == params_qual_name(params_cls) IN
    IF service_registry[qn] # Missing
    THEN /\ reg_raised' = "ValueError"
         /\ UNCHANGED <<params_registry, service_registry, alias_registry>>
         /\ UNCHANGED outsideReg
    ELSE /\ service_registry' = [service_registry EXCEPT ![qn] = service_cls]
         /\ alias_registry' = IF alias # NoAlias
                              THEN [alias_registry EXCEPT ![alias] = qn]
                              ELSE alias_registry
         /\ reg_raised' = "none"
         /\ UNCHANGED params_registry
         /\ UNCHANGED outsideReg

\* BaseDataService.register(params_cls): BaseParams of this module defines no
\* register, so BaseParams.register() is ABCMeta.register called without its
\* argument; the decorator is never built
BaseDataServiceRegister(params_cls, service_cls) ==
    /\ reg_raised' = "TypeError"
    /\ UNCHANGED <<params_registry, service_registry, alias_registry>>
    /\ UNCHANGED outsideReg

\* cls._alias_registry.get(name, name)
resolve(aliases, name) == IF aliases[name] # Missing THEN aliases[name] ELSE name

\* RegistryManager.lookup_params
lookup_params(aliases, registry, name) ==
    LET qual_name == resolve(aliases, name) IN
    IF qual_name \in DOMAIN registry THEN registry[qual_name] ELSE Missing

\* RegistryManager.lookup_service
lookup_service(aliases, registry, name) ==
    LET qual_name == resolve(aliases, name) IN
    IF qual_name \in DOMAIN registry THEN registry[qual_name] ELSE Missing

\* RegistryManager.register_alias
RegisterAlias(alias, qual_name) ==
    /\ alias_registry' = [alias_registry EXCEPT ![alias] = qual_name]
    /\ reg_raised' = "none"
    /\ UNCHANGED <<params_registry, service_registry>>
    /\ UNCHANGED outsideReg

\* RegistryManager.unregister_alias
UnregisterAlias(alias) ==
    /\ alias_registry' = [alias_registry EXCEPT ![alias] = Missing]
    /\ reg_raised' = "none"
    /\ UNCHANGED <<params_registry, service_registry>>
    /\ UNCHANGED outsideReg

\* RegistryManager.unregister: the removal of the service and of the
\* parameter type is commented out, unregister_alias(name) is all it does
Unregister(name) ==
    /\ alias_registry' = [alias_registry EXCEPT ![name] = Missing]
    /\ reg_raised' = "none"
    /\ UNCHANGED <<params_registry, service_registry>>
    /\ UNCHANGED outsideReg

RegNext ==
    \/ \E p \in ParamTypes, a \in Aliases \cup {NoAlias} : RegisterParams(p, a)
    \/ \E p \in ParamTypes, c \in ServiceTypes, a \in Aliases \cup {NoAlias} :
           RegisterService(p, c, a)
    \/ \E p \in ParamTypes, c \in ServiceTypes : BaseDataServiceRegister(p, c)
    \/ \E a \in Aliases, q \in QualNames : RegisterAlias(a, q)
    \/ \E a \in Names : UnregisterAlias(a)
    \/ \E n \in Names : Unregister(n)

\* ------------------------------------------------------------ BaseParams
\* Python values: a scalar is a pair of its type and its text
PyStr(x) == <<"str", x>>
PyInt(x) == <<"int", x>>
DateTime(x) == <<"datetime", x>>
PyNone == <<"none", "">>
NoKey == <<"", "">>

PyScalar(x) == [t |-> "scalar", k |-> NoKey, v |-> x]
PyList(x) == [t |-> "list", k |-> NoKey, v |-> x]
PyDict(key, x) == [t |-> "dict", k |-> key, v |-> x]

\* SQLParams: conn_str: str, query: str, parameters: dict | list | None
FieldNames == <<"conn_str", "query", "parameters">>

Elements == {PyStr("a"), PyInt("1"), DateTime("2024-01-01")}

ParameterValues ==
    {PyScalar(PyNone)}
        \cup {PyList(x) : x \in Elements}
        \cup {PyDict(key, x) : key \in {PyStr("1"), PyInt("1")}, x \in Elements}

Instances ==
    {[cls |-> "SQLParams",
      fields |-> [f \in {"conn_str", "query", "parameters"} |->
                     CASE f = "conn_str" -> PyScalar(PyStr("sqlite:///example.db"))
                       [] f = "query" -> PyScalar(PyStr(q))
                       [] f = "parameters" -> pv]] :
        q \in {"select 1 as a", ""}, pv \in ParameterValues}

NoInstance == [cls |-> "none", fields |-> [f \in {} |-> PyScalar(PyNone)]]

Revisions == {"data_service_base", "services_base"}

\* the value written under "kind": qual_name() in data_service_base.py,
\* create_kind_name(self.kind) in services/base.py
kind_of(b, cls) ==
    IF b = "data_service_base"
    THEN "fastflight.data_services.sql_service." \o cls
    ELSE cls

\* self.model_dump(): the fields in declaration order
model_dump(obj) ==
    [i \in 1..Len(FieldNames) |-> <<FieldNames[i], obj.fields[FieldNames[i]]>>]

\* BaseParams.to_json: json_data["kind"] = ...
to_json(b, obj) ==
    Append(model_dump(obj), <<"kind", PyScalar(PyStr(kind_of(b, obj.cls)))>>)

\* json.dumps knows str, int, None, list and dict; a dict key that is an int
\* is written as a string
encodable(x) == x.v[1] \in {"str", "int", "none"}

dumps_scalar(x) ==
    CASE x[1] = "str" -> <<"string", x[2]>>
      [] x[1] = "int" -> <<"number", x[2]>>
      [] x[1] = "none" -> <<"null", "">>

dumps_value(x) ==
    [t |-> CASE x.t = "scalar" -> "scalar" [] x.t = "list" -> "array" [] x.t = "dict" -> "object",
     k |-> IF x.t = "dict" THEN <<"string", x.k[2]>> ELSE NoKey,
     v |-> dumps_scalar(x.v)]

json_dumps(d) == [i \in DOMAIN d |-> <<d[i][1], dumps_value(d[i][2])>>]

\* BaseParams.to_bytes
to_bytes(b, obj) ==
    LET json_data == to_json(b, obj) IN
    IF \E i \in DOMAIN json_data : ~encodable(json_data[i][2])
    THEN [raised |-> "TypeError", data |-> <<>>]
    ELSE [raised |-> "none", data |-> json_dumps(json_data)]

loads_scalar(x) ==
    CASE x[1] = "string" -> PyStr(x[2])
      [] x[1] = "number" -> PyInt(x[2])
      [] x[1] = "null" -> PyNone

loads_value(x) ==
    [t |-> CASE x.t = "scalar" -> "scalar" [] x.t = "array" -> "list" [] x.t = "object" -> "dict",
     k |-> IF x.t = "object" THEN PyStr(x.k[2]) ELSE NoKey,
     v |-> loads_scalar(x.v)]

json_loads(d) == [i \in DOMAIN d |-> <<d[i][1], loads_value(d[i][2])>>]

HasKey(d, key) == \E i \in DOMAIN d : d[i][1] = key

ValueAt(d, key) == d[CHOOSE i \in DOMAIN d : d[i][1] = key][2]

\* params_cls.model_validate(json_data): the declared fields, each checked
\* against its annotation
model_validate(cls, json_data) ==
    IF /\ \A f \in {"conn_str", "query", "parameters"} : HasKey(json_data, f)
       /\ \A f \in {"conn_str", "query"} :
              ValueAt(json_data, f).t = "scalar" /\ ValueAt(json_data, f).v[1] = "str"
       /\ \/ ValueAt(json_data, "parameters").t \in {"list", "dict"}
          \/ ValueAt(json_data, "parameters") = PyScalar(PyNone)
    THEN [raised |-> "none",
          obj |-> [cls |-> cls,
                   fields |-> [f \in {"conn_str", "query", "parameters"} |-> ValueAt(json_data, f)]]]
    ELSE [raised |-> "ValidationError", obj |-> NoInstance]

\* BaseParams.from_bytes: in data_service_base.py the class is looked up with
\* cls.lookup, which BaseParams does not define; in services/base.py with
\* get_params_cls
from_bytes(b, reg, d) ==
    LET loaded == json_loads(d)
        json_data == SelectSeq(loaded, LAMBDA e : e[1] # "kind")
    IN  IF ~HasKey(loaded, "kind")
        THEN [raised |-> "KeyError", obj |-> NoInstance]
        ELSE IF b = "data_service_base"
        THEN [raised |-> "AttributeError", obj |-> NoInstance]
        ELSE IF ~reg
        THEN [raised |-> "ValueError", obj |-> NoInstance]
        ELSE model_validate("SQLParams", json_data)

CodecStart(b, reg, obj) ==
    /\ base = b
    /\ registered = reg
    /\ params_obj = obj
    /\ data = <<>>
    /\ new_params = NoInstance
    /\ data2 = <<>>
    /\ kraised = "none"
    /\ kpc = "new"

CodecInit == \E b \in Revisions, reg \in BOOLEAN, obj \in Instances : CodecStart(b, reg, obj)

CodecIdle ==
    CodecStart("data_service_base", FALSE,
               CHOOSE obj \in Instances :
                   obj.fields["query"] = PyScalar(PyStr("")) /\ obj.fields["parameters"] = PyScalar(PyNone))

\* b = ticket.to_bytes()
ToBytes ==
    /\ kpc = "new"
    /\ LET r == to_bytes(base, params_obj) IN
        /\ data' = r.data
        /\ kraised' = r.raised
        /\ kpc' = IF r.raised = "none" THEN "encoded" ELSE "raised"
    /\ UNCHANGED <<base, registered, params_obj, new_params, data2>>
    /\ UNCHANGED outsideCodec

\* new_params = BaseParams.from_bytes(b)
FromBytes ==
    /\ kpc = "encoded"
    /\ LET r == from_bytes(base, registered, data) IN
        /\ new_params' = r.obj
        /\ kraised' = r.raised
        /\ kpc' = IF r.raised = "none" THEN "decoded" ELSE "raised"
    /\ UNCHANGED <<base, registered, params_obj, data, data2>>
    /\ UNCHANGED outsideCodec

\* new_params.to_bytes()
ToBytesAgain ==
    /\ kpc = "decoded"
    /\ LET r == to_bytes(base, new_params) IN
        /\ data2' = r.data
        /\ kraised' = r.raised
        /\ kpc' = IF r.raised = "none" THEN "done" ELSE "raised"
    /\ UNCHANGED <<base, registered, params_obj, data, new_params>>
    /\ UNCHANGED outsideCodec

CodecNext == ToBytes \/ FromBytes \/ ToBytesAgain

\* ------------------------------------------------------------ RetryConfig.calculate_delay
\* delays are counted in 1/Den of a second, exponential_base and
\* jitter_factor in halves, random.random() * 2 - 1 in halves
Den == (2 ^ (MaxDelayAttempts - 1)) * 4

Strategies == {"FIXED_DELAY", "LINEAR_BACKOFF", "EXPONENTIAL_BACKOFF", "JITTERED_EXPONENTIAL"}

\* random.random() * 2 - 1 lies in [-1, 1)
Randoms == {-2, -1, 0, 1}

\* self.base_delay * (self.exponential_base ** (attempt - 1))
exponential(cfg, n) ==
    cfg.base_delay * (cfg.exponential_base ^ (n - 1)) * (Den \div (2 ^ (n - 1)))

\* calculate_delay without the final min
calculate_delay_unclamped(cfg, n, r) ==
    LET delay ==
            CASE cfg.strategy = "FIXED_DELAY" -> cfg.base_delay * Den
              [] cfg.strategy = "LINEAR_BACKOFF" -> cfg.base_delay * n * Den
              [] cfg.strategy = "EXPONENTIAL_BACKOFF" -> exponential(cfg, n)
              [] cfg.strategy = "JITTERED_EXPONENTIAL" ->
                     exponential(cfg, n) + (exponential(cfg, n) * cfg.jitter_factor * r) \div 4
    IN  [raw |-> delay, delay |-> delay]

\* RetryConfig.calculate_delay(attempt), r the random draw
calculate_delay(cfg, n, r) ==
    LET delay ==
            CASE cfg.strategy = "FIXED_DELAY" -> cfg.base_delay * Den
              [] cfg.strategy = "LINEAR_BACKOFF" -> cfg.base_delay * n * Den
              [] cfg.strategy = "EXPONENTIAL_BACKOFF" -> exponential(cfg, n)
              [] cfg.strategy = "JITTERED_EXPONENTIAL" ->
                     exponential(cfg, n) + (exponential(cfg, n) * cfg.jitter_factor * r) \div 4
    IN  [raw |-> delay, delay |-> Min({delay, cfg.max_delay * Den})]

DelayConfigs ==
    [strategy : Strategies,
     base_delay : {-1, 0, 1, 2},
     max_delay : {1, 3},
     exponential_base : {1, 2, 4},
     jitter_factor : {0, 1}]

DelayStart(cfg) ==
    /\ rconf = cfg
    /\ raws = <<>>
    /\ delays = <<>>

DelayInit == \E cfg \in DelayConfigs : DelayStart(cfg)

DelayIdle ==
    DelayStart([strategy |-> "EXPONENTIAL_BACKOFF", base_delay |-> 1, max_delay |-> 3,
                exponential_base |-> 4, jitter_factor |-> 0])

\* delay = retry_config.calculate_delay(attempt), for the next attempt of the
\* loop
CalculateDelay ==
    /\ Len(delays) < MaxDelayAttempts
    /\ \E r \in Randoms :
        LET d == calculate_delay(rconf, Len(delays) + 1, r) IN
        /\ raws' = Append(raws, d.raw)
        /\ delays' = Append(delays, d.delay)
    /\ UNCHANGED rconf
    /\ UNCHANGED outsideDelay

DelayNext == CalculateDelay

\* ------------------------------------------------------------ optimize_time_series_query
\* QueryPattern
REAL_TIME == "real_time"
HISTORICAL == "historical"
BACKFILL == "backfill"
ANALYTICS == "analytics"

\* OptimizationHint(), for_real_time(), for_analytics(), and a default hint
\* for a backfill
Hints ==
    {[pattern |-> HISTORICAL, max_workers |-> 8, target_batch_size |-> 10000],
     [pattern |-> REAL_TIME, max_workers |-> 2, target_batch_size |-> 1000],
     [pattern |-> ANALYTICS, max_workers |-> 16, target_batch_size |-> 50000],
     [pattern |-> BACKFILL, max_workers |-> 8, target_batch_size |-> 10000]}

\* the real-time branch splitting a query of exactly one hour
optimize_time_series_query_strict(p, h, points) ==
    IF h.pattern = REAL_TIME
    THEN IF time_range_duration(p) < Hour
         THEN [raised |-> FALSE, partitions |-> <<p>>]
         ELSE [raised |-> FALSE, partitions |-> split_by_window_size(p, QuarterHour)]
    ELSE IF h.pattern = ANALYTICS
    THEN get_optimal_partitions(p, points, h.max_workers, h.target_batch_size)
    ELSE get_optimal_partitions(p, points, h.max_workers, DefaultTarget)

\* optimize_time_series_query(params, hint), points what
\* params.estimate_data_points() returns
optimize_time_series_query(p, h, points) ==
    IF h.pattern = REAL_TIME
    THEN IF time_range_duration(p) <= Hour
         THEN [raised |-> FALSE, partitions |-> <<p>>]
         ELSE [raised |-> FALSE, partitions |-> split_by_window_size(p, QuarterHour)]
    ELSE IF h.pattern = ANALYTICS
    THEN get_optimal_partitions(p, points, h.max_workers, h.target_batch_size)
    ELSE get_optimal_partitions(p, points, h.max_workers, DefaultTarget)

\* the datetimes drawn lie on a grid of half a quarter of an hour; the
\* partition counts the hints and estimates lead to (1, 2, 3, 5, 8) divide
\* every duration on the grid into whole milliseconds, so that timedelta / int
\* never rounds
Grid == QuarterHour \div 2

OptInit ==
    /\ \E s \in 0..MaxStart, d \in (-MaxReverse)..MaxQuery :
          query = [start_time |-> s * Grid, end_time |-> (s + d) * Grid]
    /\ hint \in Hints
    /\ estimate \in {None} \cup {k * 25000 : k \in 0..MaxPoints}
    /\ plan = <<>>
    /\ opc = "call"

OptIdle ==
    /\ query = [start_time |-> 0, end_time |-> 0]
    /\ hint = [pattern |-> HISTORICAL, max_workers |-> 8, target_batch_size |-> 10000]
    /\ estimate = None
    /\ plan = <<>>
    /\ opc = "idle"

OptimizeTimeSeriesQuery ==
    /\ opc = "call"
    /\ LET r == optimize_time_series_query(query, hint, estimate)
       IN  /\ plan' = r.partitions
           /\ opc' = IF r.raised THEN "raised" ELSE "returned"
    /\ UNCHANGED <<query, hint, estimate>>
    /\ UNCHANGED outsideOpt

OptNext == OptimizeTimeSeriesQuery

\* ------------------------------------------------------------ FastFlightClient
\* pyarrow.flight and built-in errors
FLIGHT_UNAVAILABLE == "FlightUnavailableError"
FLIGHT_TIMED_OUT == "FlightTimedOutError"
FLIGHT_INTERNAL == "FlightInternalError"
CONNECTION_ERROR == "ConnectionError"
OS_ERROR == "OSError"
TIMEOUT_ERROR == "TimeoutError"
NativeErrors ==
    {FLIGHT_UNAVAILABLE, FLIGHT_TIMED_OUT, FLIGHT_INTERNAL, CONNECTION_ERROR, OS_ERROR,
     TIMEOUT_ERROR, VALUE}

\* fastflight.exceptions
FASTFLIGHT_ERROR == "FastFlightError"
RESOURCE_EXHAUSTED == "ResourceExhausted"
FastFlightErrors ==
    {FASTFLIGHT_ERROR, CONNECTION, TIMEOUT, SERVER, RESOURCE_EXHAUSTED, CIRCUIT_OPEN,
     RETRY_EXHAUSTED}

NoError == "none"

\* the classes an error is an instance of, for isinstance
Classes(e) ==
    IF e \in FastFlightErrors THEN {e, FASTFLIGHT_ERROR}
    ELSE IF e = CONNECTION_ERROR THEN {CONNECTION_ERROR, OS_ERROR}
    ELSE IF e = TIMEOUT_ERROR THEN {TIMEOUT_ERROR, OS_ERROR}
    ELSE {e}

\* _handle_flight_error(error, operation_context): the class of the error
\* returned
handle_flight_error(e) ==
    IF FLIGHT_UNAVAILABLE \in Classes(e) THEN CONNECTION
    ELSE IF FLIGHT_TIMED_OUT \in Classes(e) THEN TIMEOUT
    ELSE IF FLIGHT_INTERNAL \in Classes(e) THEN SERVER
    ELSE IF Classes(e) \cap {CONNECTION_ERROR, OS_ERROR} # {} THEN CONNECTION
    ELSE IF TIMEOUT_ERROR \in Classes(e) THEN TIMEOUT
    ELSE FASTFLIGHT_ERROR

\* except Exception as e: if isinstance(e, FastFlightError): raise; raise
\* _handle_flight_error(e, ...)
outer_except(e) == IF FASTFLIGHT_ERROR \in Classes(e) THEN e ELSE handle_flight_error(e)

\* what to_flight_ticket can raise, and what do_get and the callback can
OperationErrors(site) ==
    IF site = "to_flight_ticket" THEN {VALUE}
    ELSE NativeErrors \cup (FastFlightErrors \ {CIRCUIT_OPEN, RETRY_EXHAUSTED})

CliStart(api, at) ==
    /\ capi = api
    /\ fpc = at
    /\ loop_thread = "idle"
    /\ scheduled = <<>>
    /\ craised = <<>>
    /\ cseen = <<>>
    /\ cmanager = NoError
    /\ csurfaced = NoError

CliInit == \E api \in {"aget_stream_reader", "get_stream_reader", "acquire"} : CliStart(api, "call")

CliIdle == CliStart("acquire", "idle")

\* aget_stream_reader_with_callback awaits execute_with_resilience on the
\* caller's own loop
AgetStreamReader ==
    /\ capi = "aget_stream_reader" /\ fpc = "call"
    /\ fpc' = "execute"
    /\ UNCHANGED <<capi, loop_thread, scheduled, craised, cseen, cmanager, csurfaced>>
    /\ UNCHANGED outsideCli

\* one attempt of the async _execute_operation: it returns what the callback
\* returns, or raises what _handle_flight_error makes of the error
AsyncOperation ==
    /\ capi = "aget_stream_reader" /\ fpc = "execute"
    /\ Len(cseen) < MaxAttempts
    /\ \/ /\ fpc' = "returned"
          /\ UNCHANGED <<craised, cseen>>
       \/ \E site \in {"to_flight_ticket", "do_get"} : \E e \in OperationErrors(site) :
             /\ craised' = Append(craised, e)
             /\ cseen' = Append(cseen, handle_flight_error(e))
             /\ UNCHANGED fpc
    /\ UNCHANGED <<capi, loop_thread, scheduled, cmanager, csurfaced>>
    /\ UNCHANGED outsideCli

\* get_stream_reader: run_coroutine hands execute_with_resilience to the
\* converter's loop and waits in future.result()
GetStreamReader ==
    /\ capi = "get_stream_reader" /\ fpc = "call"
    /\ scheduled' = Append(scheduled, "execute_with_resilience")
    /\ fpc' = "result"
    /\ UNCHANGED <<capi, loop_thread, craised, cseen, cmanager, csurfaced>>
    /\ UNCHANGED outsideCli

\* FlightClientPool.acquire called from a thread of the caller's: run_coroutine
\* hands queue.get() to the loop and waits
AcquireFromThread ==
    /\ capi = "acquire" /\ fpc = "call"
    /\ scheduled' = Append(scheduled, "queue.get")
    /\ fpc' = "result"
    /\ UNCHANGED <<capi, loop_thread, craised, cseen, cmanager, csurfaced>>
    /\ UNCHANGED outsideCli

\* the loop thread, when it is not inside a callback, runs the next coroutine:
\* execute_with_resilience up to the call of the wrapped function, or
\* queue.get() of a pool with a free handle, whose result ends the wait of
\* the thread that asked for it
LoopRuns ==
    /\ loop_thread = "idle"
    /\ scheduled # <<>>
    /\ scheduled' = Tail(scheduled)
    /\ IF Head(scheduled) = "execute_with_resilience"
       THEN /\ loop_thread' = "execute"
            /\ UNCHANGED fpc
       ELSE /\ UNCHANGED loop_thread
            /\ fpc' = "returned"
    /\ UNCHANGED <<capi, craised, cseen, cmanager, csurfaced>>
    /\ UNCHANGED outsideCli

\* one attempt of the blocking _execute_operation, a plain function the
\* manager calls on the loop thread: to_flight_ticket raises, or
\* self._client_pool.acquire() hands queue.get() to the same loop and waits
\* for it on the loop thread
SyncOperation ==
    /\ capi = "get_stream_reader" /\ loop_thread = "execute"
    /\ Len(cseen) < MaxAttempts
    /\ \/ \E e \in OperationErrors("to_flight_ticket") :
             /\ craised' = Append(craised, e)
             /\ cseen' = Append(cseen, handle_flight_error(e))
             /\ UNCHANGED <<loop_thread, scheduled>>
       \/ /\ scheduled' = Append(scheduled, "queue.get")
          /\ loop_thread' = "result"
          /\ UNCHANGED <<craised, cseen>>
    /\ UNCHANGED <<capi, fpc, cmanager, csurfaced>>
    /\ UNCHANGED outsideCli

\* execute_with_resilience is running its attempts
InManager ==
    \/ capi = "aget_stream_reader" /\ fpc = "execute"
    \/ capi = "get_stream_reader" /\ fpc = "result" /\ loop_thread = "execute"

\* what a failed execute_with_resilience leaves the client's except clause
\* with, e the error it raised
Surface(e) ==
    /\ cmanager' = e
    /\ csurfaced' = outer_except(e)
    /\ fpc' = "raised"
    /\ loop_thread' = "idle"
    /\ UNCHANGED <<capi, scheduled, craised, cseen>>
    /\ UNCHANGED outsideCli

\* the manager stops after a failed attempt: it raises that attempt's error,
\* or RetryExhausted
ManagerRaises ==
    /\ InManager
    /\ cseen # <<>>
    /\ \E e \in {cseen[Len(cseen)], RETRY_EXHAUSTED} : Surface(e)

\* the breaker rejects an attempt
ManagerRejects ==
    /\ InManager
    /\ Len(cseen) < MaxAttempts
    /\ Surface(CIRCUIT_OPEN)

\* get_circuit_breaker finds no breaker and no configuration
ManagerFails ==
    /\ InManager
    /\ cseen = <<>>
    /\ Surface(VALUE)

CliNext ==
    \/ AgetStreamReader
    \/ AsyncOperation
    \/ GetStreamReader
    \/ AcquireFromThread
    \/ LoopRuns
    \/ SyncOperation
    \/ ManagerRaises
    \/ ManagerRejects
    \/ ManagerFails

\* threads run, and a loop that is not inside a callback runs what it was
\* handed
CliFairness == WF_vars(CliNext)

\* ------------------------------------------------------------ split_by_window_size, step by step
\* datetime.min and datetime.max: datetime + timedelta raises OverflowError
\* outside them
DateTimeMin == -MaxRange
DateTimeMax == MaxStart + MaxDuration + MaxRange

LoopStart(p, w, at) ==
    /\ lparams = p
    /\ lwindow = w
    /\ loop_start = p.start_time
    /\ appended = 0
    /\ lpc = at

\* every window size, and parents that end before they start
LoopInit ==
    \E s \in 0..MaxStart, d \in (-MaxReverse)..MaxDuration, w \in (-MaxWindow)..MaxWindow :
        LoopStart([start_time |-> s, end_time |-> s + d], w, "loop")

LoopIdle == LoopStart([start_time |-> 0, end_time |-> 0], 1, "idle")

\* one pass through the body: current_end = min(current_start + window_size,
\* self.end_time), a partition is appended, current_start = current_end
WindowLoopBody ==
    /\ lpc = "loop"
    /\ loop_start < lparams.end_time
    /\ IF loop_start + lwindow < DateTimeMin \/ loop_start + lwindow > DateTimeMax
       THEN /\ lpc' = "raised"
            /\ UNCHANGED <<loop_start, appended>>
       ELSE /\ loop_start' = Min({loop_start + lwindow, lparams.end_time})
            /\ appended' = Min({appended + 1, MaxDuration + 1})
            /\ UNCHANGED lpc
    /\ UNCHANGED <<lparams, lwindow>>
    /\ UNCHANGED outsideLoop

\* the loop test fails: return partitions
WindowLoopReturn ==
    /\ lpc = "loop"
    /\ ~(loop_start < lparams.end_time)
    /\ lpc' = "returned"
    /\ UNCHANGED <<lparams, lwindow, loop_start, appended>>
    /\ UNCHANGED outsideLoop

LoopNext ==
    \/ WindowLoopBody
    \/ WindowLoopReturn

LateIdle == OptIdle /\ CliIdle /\ LoopIdle

\* the components the other specifications leave at rest
RestIdle == RegIdle /\ CodecIdle /\ DelayIdle /\ LateIdle

\* ------------------------------------------------------------ cancellation
\* a pool whose callers make no call
PoolRest ==
    /\ pool_size = 1
    /\ queue = <<1>>
    /\ client = [c \in Callers |-> None]
    /\ reader = [c \in Callers |-> None]
    /\ timeout = [c \in Callers |-> FALSE]
    /\ op = [c \in Callers |-> "table"]
    /\ ppc = [c \in Callers |-> "rest"]
    /\ closed = {}
    /\ closing = None
    /\ cpc = "idle"

\* a server with no request
ServerRest ==
    /\ server = "server"
    /\ ticket = [tag |-> "ok", param |-> "plain"]
    /\ service = [kind |-> "sync", total |-> 0, raises |-> FALSE]
    /\ rpc = "idle"
    /\ called = "none"
    /\ produced = <<>>
    /\ producer = "none"
    /\ bridge = <<>>
    /\ first_batch = None
    /\ schema = FALSE
    /\ sent = <<>>
    /\ status = "pending"
    /\ detail = "none"

\* the consumer of the merged stream closes it, or the task iterating it is
\* cancelled: the generators are closed where they stand (the with block of
\* the thread pool is left, its shutdown waiting for the threads); no future
\* and no Ray task is cancelled
CancelStream ==
    /\ spc \in {"poll", "handle", "drain", "emit"}
    /\ spc' = "cancelled"
    /\ cur' = None
    /\ pos' = 0
    /\ UNCHANGED <<sconf, worker, nbatches, failed, pending, ready, results,
                   next_expected_idx, emitted>>
    /\ UNCHANGED outsideStream

\* the RPC is cancelled: the reader and with it the generator of
\* syncify_async_iter are dropped; the _iterate task is left to itself
AbandonResponse ==
    /\ rpc \in {"first", "stream_first", "stream_rest"}
    /\ rpc' = "abandoned"
    /\ status' = "aborted"
    /\ UNCHANGED <<server, ticket, service, called, produced, producer, bridge,
                   first_batch, schema, sent, detail>>
    /\ UNCHANGED outsideServer

\* the task of caller c is cancelled: in the wait of acquire_async the get is
\* cancelled and takes nothing; inside the scope CancelledError is raised at
\* the await and the finally clause is still to run
CancelCaller(c) ==
    /\ ppc[c] \in {"waiting", "scope", "got", "read"}
    /\ ppc' = [ppc EXCEPT ![c] = IF ppc[c] = "waiting" THEN "cancelled" ELSE "cancelling"]
    /\ UNCHANGED <<pool_size, queue, client, reader, timeout, op, closed, closing, cpc>>
    /\ UNCHANGED outsidePool

\* finally: await self.queue.put(client), in the cancelled task
ReleaseCancelled(c) ==
    /\ ppc[c] = "cancelling"
    /\ queue' = Append(queue, client[c])
    /\ client' = [client EXCEPT ![c] = None]
    /\ reader' = [reader EXCEPT ![c] = None]
    /\ ppc' = [ppc EXCEPT ![c] = "cancelled"]
    /\ UNCHANGED <<pool_size, timeout, op, closed, closing, cpc>>
    /\ UNCHANGED outsidePool

\* a worker of the partitioner comes to its end
WorkerEnds ==
    \E i \in Parts(sconf.nparts) :
        \/ \E b \in 0..MaxBatches : RayTaskDone(i, b)
        \/ RayTaskCrash(i)
        \/ ThreadDone(i)
        \/ ThreadCrash(i)

\* the bridge's _iterate task takes a step
ProducerSteps == ProducerPut \/ ProducerEnd

CancelNext ==
    \/ StreamNext
    \/ ServerNext
    \/ \E c \in Callers, t \in BOOLEAN, o \in {"table", "reader"} : PoolAcquire(c, t, o)
    \/ \E c \in Callers : PoolGet(c)
    \/ \E c \in Callers : PoolTimeout(c)
    \/ \E c \in Callers : DoGet(c)
    \/ \E c \in Callers : Callback(c)
    \/ \E c \in Callers : Release(c)
    \/ \E c \in Callers : ReleaseOnError(c)
    \/ \E c \in Callers : ReadReturnedReader(c)
    \/ CancelStream
    \/ AbandonResponse
    \/ \E c \in Callers : CancelCaller(c)
    \/ \E c \in Callers : ReleaseCancelled(c)

\* a dispatch, a request or the pool's callers under way, the other two at
\* rest
CancelInit ==
    /\ ResIdle
    /\ SplitIdle
    /\ RestIdle
    /\ \/ StreamInit /\ sconf.nparts <= MaxCancelParts /\ ServerRest /\ PoolRest
       \/ StreamIdle /\ ServerInit /\ PoolRest
       \/ StreamIdle /\ ServerRest /\ PoolInit

\* threads and Ray tasks run, the converter's loop runs its tasks, a
\* cancelled task runs its finally clause
CancelFairness ==
    /\ WF_vars(WorkerEnds)
    /\ WF_vars(ProducerSteps)
    /\ WF_vars(\E c \in Callers : ReleaseCancelled(c))

SpecCancel == CancelInit /\ [][CancelNext]_vars /\ CancelFairness

\* the resilient client, with no dispatch in progress
Init == ResInit /\ StreamIdle /\ SplitIdle /\ PoolIdle /\ ServerIdle /\ RestIdle
Next == ResNext
Spec == Init /\ [][Next]_vars

\* the client of resilience.py behind a breaker, retrying the default kinds,
\* each call followed from its entry into CircuitBreaker.call
CallSpecInit ==
    /\ ResStart(TRUE) /\ UsesBreaker(config) /\ config.impl = "module"
    /\ config.retryable = DefaultRetryable
    /\ StreamIdle /\ SplitIdle /\ PoolIdle /\ ServerIdle /\ RestIdle
SpecCall == CallSpecInit /\ [][ResNext]_vars

\* the partition merge, with the client at rest
StreamSpecInit == ResIdle /\ StreamInit /\ SplitIdle /\ PoolIdle /\ ServerIdle /\ RestIdle
SpecStream == StreamSpecInit /\ [][StreamNext]_vars

\* the partitioner, with everything else at rest
SplitSpecInit == ResIdle /\ StreamIdle /\ SplitInit /\ PoolIdle /\ ServerIdle /\ RestIdle
SpecSplit == SplitSpecInit /\ [][SplitNext]_vars

\* the connection pool, with everything else at rest
PoolSpecInit == ResIdle /\ StreamIdle /\ SplitIdle /\ PoolInit /\ ServerIdle /\ RestIdle
SpecPool == PoolSpecInit /\ [][PoolNext]_vars

\* the registry alone
RegSpecInit ==
    /\ ResIdle /\ StreamIdle /\ SplitIdle /\ PoolIdle /\ ServerIdle
    /\ RegInit /\ CodecIdle /\ DelayIdle /\ LateIdle
SpecRegistry == RegSpecInit /\ [][RegNext]_vars

\* one round trip of one instance
CodecSpecInit ==
    /\ ResIdle /\ StreamIdle /\ SplitIdle /\ PoolIdle /\ ServerIdle
    /\ RegIdle /\ CodecInit /\ DelayIdle /\ LateIdle
SpecCodec == CodecSpecInit /\ [][CodecNext]_vars

\* the delays of one retry loop
DelaySpecInit ==
    /\ ResIdle /\ StreamIdle /\ SplitIdle /\ PoolIdle /\ ServerIdle
    /\ RegIdle /\ CodecIdle /\ DelayInit /\ LateIdle
SpecDelay == DelaySpecInit /\ [][DelayNext]_vars

\* one query handed to the optimizer
OptSpecInit ==
    /\ ResIdle /\ StreamIdle /\ SplitIdle /\ PoolIdle /\ ServerIdle
    /\ RegIdle /\ CodecIdle /\ DelayIdle /\ OptInit /\ CliIdle /\ LoopIdle
SpecOptimize == OptSpecInit /\ [][OptNext]_vars

\* one call of the client
CliSpecInit ==
    /\ ResIdle /\ StreamIdle /\ SplitIdle /\ PoolIdle /\ ServerIdle
    /\ RegIdle /\ CodecIdle /\ DelayIdle /\ OptIdle /\ CliInit /\ LoopIdle
SpecClient == CliSpecInit /\ [][CliNext]_vars /\ CliFairness

\* one call of split_by_window_size; the interpreter keeps running the loop
LoopSpecInit ==
    /\ ResIdle /\ StreamIdle /\ SplitIdle /\ PoolIdle /\ ServerIdle
    /\ RegIdle /\ CodecIdle /\ DelayIdle /\ OptIdle /\ CliIdle /\ LoopInit
SpecWindowLoop == LoopSpecInit /\ [][LoopNext]_vars /\ WF_vars(LoopNext)

\* one request to the server, with everything else at rest
ServerSpecInit == ResIdle /\ StreamIdle /\ SplitIdle /\ PoolIdle /\ ServerInit /\ RestIdle
SpecServer == ServerSpecInit /\ [][ServerNext]_vars

\* the same, with the loop running the producer and the transport reading
\* the stream as long as they can
SpecServerLive == ServerSpecInit /\ [][ServerNext]_vars /\ WF_vars(ServerNext)

\* ------------------------------------------------------------ steps, as the claims speak of them
\* task t's wrapped function returns / raises in this step
SuccessStep(t) == pc[t] = "running" /\ pc'[t] = "returned" /\ outcome'[t].status = "ok"
FailStep(t) == pc[t] = "running" /\ pc'[t] # "running" /\ ~SuccessStep(t)
\* task t makes an attempt in this step (the first, or the one after a sleep)
AttemptStep(t) ==
    \/ pc[t] = "idle" /\ attempt'[t] = 1
    \/ pc[t] = "sleeping" /\ attempt'[t] = attempt[t] + 1
\* the wrapped function is invoked in this step
Invoked(t) == calls'[t] = calls[t] + 1
\* the error the attempt of this step ended with
RaisedExc(t) == IF UsesRetry(config) THEN last_exception'[t] ELSE outcome'[t].exc

\* C1: in CLOSED a monitored failure of an admitted call adds one to
\* failure_count and records the time; the breaker opens exactly when the
\* count reaches failure_threshold; a success in CLOSED zeroes the count; the
\* breaker leaves CLOSED by no other step.
C1_ClosedCounting ==
    [][\A t \in Tasks :
         (UsesBreaker(config) /\ breaker.state = CLOSED) =>
            /\ (FailStep(t) /\ RaisedExc(t).kind \in config.monitored) =>
                  /\ breaker'.failure_count = breaker.failure_count + 1
                  /\ breaker'.last_failure_time = now
                  /\ breaker'.state \in {CLOSED, OPEN}
                  /\ (breaker'.state = OPEN) <=>
                        (breaker'.failure_count = config.failure_threshold)
            /\ SuccessStep(t) =>
                  (breaker'.failure_count = 0 /\ breaker'.state = CLOSED)
            /\ breaker'.state # CLOSED =>
                  /\ breaker'.state = OPEN
                  /\ breaker'.failure_count = breaker.failure_count + 1
                  /\ breaker'.failure_count = config.failure_threshold]_vars

\* two failures in CLOSED have opened a breaker whose threshold is 2
C1_Witness ==
    /\ UsesBreaker(config)
    /\ config.failure_threshold = 2
    /\ breaker.state = OPEN
    /\ breaker.failure_count = 2
    /\ breaker.last_failure_time = now

\* C2: an attempt invokes the wrapped function iff the breaker, after the
\* recovery check, is CLOSED or HALF_OPEN; when it is OPEN the attempt ends
\* with CircuitOpen carrying retry_after = recovery_timeout > 0, nothing is
\* invoked and the breaker's fields are as before.
C2_Admission ==
    [][\A t \in Tasks :
         (UsesBreaker(config) /\ AttemptStep(t)) =>
            /\ Invoked(t) <=> breaker'.state \in {CLOSED, HALF_OPEN}
            /\ Invoked(t) <=> pc'[t] = "running"
            /\ breaker'.state = OPEN =>
                  /\ calls'[t] = calls[t]
                  /\ breaker' = breaker
                  /\ RaisedExc(t).kind = CIRCUIT_OPEN
                  /\ RaisedExc(t).retry_after = config.recovery_timeout
                  /\ RaisedExc(t).retry_after > 0]_vars

\* a call was rejected by the open breaker without an invocation
C2_Witness ==
    \E t \in Tasks :
        /\ UsesBreaker(config)
        /\ pc[t] = "returned"
        /\ outcome[t].status = "raised"
        /\ outcome[t].exc.kind = CIRCUIT_OPEN
        /\ calls[t] = 0
        /\ breaker.state = OPEN

\* C3: an attempt that finds the breaker OPEN is admitted only if
\* recovery_timeout has elapsed since last_failure_time; the breaker then
\* moves to HALF_OPEN with success_count 0, and otherwise stays as it is.
C3_Recovery ==
    [][\A t \in Tasks :
         (UsesBreaker(config) /\ AttemptStep(t) /\ breaker.state = OPEN) =>
            IF now - breaker.last_failure_time >= config.recovery_timeout
            THEN /\ breaker' = [breaker EXCEPT !.state = HALF_OPEN, !.success_count = 0]
                 /\ Invoked(t)
            ELSE /\ breaker' = breaker
                 /\ ~Invoked(t)
                 /\ pc'[t] # "running"]_vars

\* a call was admitted into HALF_OPEN after a positive recovery_timeout
C3_Witness ==
    \E t \in Tasks :
        /\ UsesBreaker(config)
        /\ config.recovery_timeout >= 1
        /\ breaker.state = HALF_OPEN
        /\ breaker.success_count = 0
        /\ pc[t] = "running"
        /\ now - breaker.last_failure_time >= config.recovery_timeout

\* C4: in HALF_OPEN a success adds one to success_count, and the breaker
\* closes exactly when the count reaches success_threshold, with both
\* counters 0.
C4_HalfOpenSuccess ==
    [][\A t \in Tasks :
         (UsesBreaker(config) /\ breaker.state = HALF_OPEN /\ SuccessStep(t)) =>
            IF breaker.success_count + 1 = config.success_threshold
            THEN /\ breaker'.state = CLOSED
                 /\ breaker'.failure_count = 0
                 /\ breaker'.success_count = 0
            ELSE /\ breaker'.state = HALF_OPEN
                 /\ breaker'.success_count = breaker.success_count + 1
                 /\ breaker'.success_count < config.success_threshold]_vars

\* a breaker that opens on its first failure is CLOSED again after two
\* successes in HALF_OPEN
C4_Witness ==
    \E t \in Tasks :
        /\ UsesBreaker(config)
        /\ config.failure_threshold = 1
        /\ config.success_threshold = 2
        /\ breaker.state = CLOSED
        /\ breaker.failure_count = 0
        /\ breaker.success_count = 0
        /\ breaker.last_failure_time # None
        /\ pc[t] = "returned"
        /\ outcome[t].status = "ok"

\* C5 as stated, a failure being one the breaker counts (a monitored error):
\* in HALF_OPEN any failure of an admitted call moves the breaker to OPEN
\* and resets success_count to 0.
C5_Original ==
    [][\A t \in Tasks :
         (/\ UsesBreaker(config)
          /\ breaker.state = HALF_OPEN
          /\ FailStep(t)
          /\ RaisedExc(t).kind \in config.monitored) =>
             (breaker'.state = OPEN /\ breaker'.success_count = 0)]_vars

\* C5 amended: in HALF_OPEN a monitored failure moves the breaker to OPEN
\* and leaves success_count as it is; the count is zeroed by the step that
\* next moves the breaker from OPEN to HALF_OPEN.
C5_HalfOpenFailure ==
    [][/\ \A t \in Tasks :
            (/\ UsesBreaker(config)
             /\ breaker.state = HALF_OPEN
             /\ FailStep(t)
             /\ RaisedExc(t).kind \in config.monitored) =>
                /\ breaker'.state = OPEN
                /\ breaker'.success_count = breaker.success_count
                /\ breaker'.failure_count = breaker.failure_count + 1
                /\ breaker'.last_failure_time = now
       /\ (breaker.state = OPEN /\ breaker'.state = HALF_OPEN) =>
             breaker'.success_count = 0]_vars

\* a failure in HALF_OPEN has reopened the breaker with a success on the count
C5_Witness ==
    /\ UsesBreaker(config)
    /\ breaker.state = OPEN
    /\ breaker.success_count = 1

\* the retry loop of task t is over after max_attempts attempts that all
\* ended with a retryable error
AllAttemptsFailed(t) ==
    /\ UsesRetry(config)
    /\ pc[t] = "returned"
    /\ outcome[t].status = "raised"
    /\ attempt[t] = config.max_attempts
    /\ last_exception[t].at = config.max_attempts
    /\ last_exception[t].kind \in config.retryable

\* C6 as stated: when all max_attempts attempts fail with a retryable error
\* the function was invoked max_attempts times and the caller receives
\* RetryExhausted whose cause is the last attempt's error.
C6_Original ==
    \A t \in Tasks :
        AllAttemptsFailed(t) =>
            /\ calls[t] = config.max_attempts
            /\ outcome[t].exc.kind = RETRY_EXHAUSTED
            /\ outcome[t].exc.last_error =
                  <<last_exception[t].kind, last_exception[t].at>>

\* C7: a success after k retryable failures, k < max_attempts, ends the call
\* at once with the result, after exactly k + 1 invocations; and a retryable
\* failure with attempts left never ends the call.
C7_RetryThenSuccess ==
    /\ [](\A t \in Tasks :
            (pc[t] = "returned" /\ outcome[t].status = "ok") =>
               LET k == sleeps[t]
               IN  /\ calls[t] = k + 1
                   /\ attempt[t] = k + 1
                   /\ UsesRetry(config) => k < config.max_attempts
                   /\ ~UsesRetry(config) => k = 0
                   /\ k > 0 => (/\ last_exception[t].at = k
                                /\ last_exception[t].kind \in config.retryable))
    /\ [][\A t \in Tasks :
            /\ SuccessStep(t) => (calls'[t] = calls[t] /\ sleeps'[t] = sleeps[t])
            /\ (/\ UsesRetry(config)
                /\ FailStep(t)
                /\ RaisedExc(t).kind \in config.retryable
                /\ attempt[t] < config.max_attempts) =>
                   (pc'[t] = "sleeping" /\ sleeps'[t] = sleeps[t] + 1)]_vars

\* a call succeeded on its second invocation
C7_Witness ==
    \E t \in Tasks :
        /\ UsesRetry(config)
        /\ pc[t] = "returned"
        /\ outcome[t].status = "ok"
        /\ calls[t] = 2
        /\ sleeps[t] = 1
        /\ last_exception[t].kind = CONNECTION

\* C8: after attempt n ends with an error the loop sleeps and goes on iff the
\* kind is retryable and n < max_attempts; a non-retryable error goes to the
\* caller as it is, with no sleep and no further attempt; attempts never
\* exceed max_attempts.
C8_RetryDecision ==
    /\ [][\A t \in Tasks :
            (/\ UsesRetry(config)
             /\ last_exception'[t] # last_exception[t]
             /\ last_exception'[t] # NoExc) =>
                LET e == last_exception'[t]
                IN  /\ e.at = attempt'[t]
                    /\ (pc'[t] = "sleeping") <=>
                          (e.kind \in config.retryable /\ e.at < config.max_attempts)
                    /\ pc'[t] \in {"sleeping", "returned"}
                    /\ pc'[t] = "sleeping" => sleeps'[t] = sleeps[t] + 1
                    /\ e.kind \notin config.retryable =>
                          /\ pc'[t] = "returned"
                          /\ outcome'[t] = [status |-> "raised", exc |-> e]
                          /\ sleeps'[t] = sleeps[t]]_vars
    /\ [](\A t \in Tasks :
            /\ attempt[t] <= config.max_attempts
            /\ calls[t] <= attempt[t]
            /\ pc[t] = "sleeping" => attempt[t] < config.max_attempts)

\* a call was retried once and then ended with a non-retryable error
C8_Witness ==
    \E t \in Tasks :
        /\ UsesRetry(config)
        /\ pc[t] = "returned"
        /\ outcome[t].status = "raised"
        /\ outcome[t].exc.kind = VALUE
        /\ outcome[t].exc.at = 2
        /\ calls[t] = 2
        /\ sleeps[t] = 1

\* C9: with retry and breaker both on, every attempt of the loop is admitted
\* or rejected by the breaker, and every failed attempt with a monitored
\* error, retried or not, adds one to failure_count and opens a CLOSED
\* breaker when the count reaches failure_threshold.
C9_RetryThroughBreaker ==
    [][\A t \in Tasks :
         (UsesRetry(config) /\ UsesBreaker(config)) =>
            /\ AttemptStep(t) =>
                  (Invoked(t) <=> breaker'.state \in {CLOSED, HALF_OPEN})
            /\ (FailStep(t) /\ RaisedExc(t).kind \in config.monitored) =>
                  /\ breaker'.failure_count = breaker.failure_count + 1
                  /\ (/\ breaker.state = CLOSED
                      /\ breaker.failure_count + 1 >= config.failure_threshold) =>
                         breaker'.state = OPEN
            /\ (SuccessStep(t) /\ breaker.state = CLOSED) =>
                  breaker'.failure_count = 0]_vars

\* one call's two failing attempts, the other task idle, have opened a
\* breaker whose threshold is 2
C9_Witness ==
    \E t \in Tasks :
        /\ UsesRetry(config)
        /\ UsesBreaker(config)
        /\ config.failure_threshold = 2
        /\ config.max_attempts = 2
        /\ \A u \in Tasks \ {t} : pc[u] = "idle"
        /\ attempt[t] = 2
        /\ calls[t] = 2
        /\ breaker.state = OPEN
        /\ breaker.failure_count = 2

\* the batches of partition j in the merged stream
BatchesOf(j) == {p \in 1..Len(emitted) : emitted[p][1] = j}

\* C10: with preserve_order = true, on every backend and for every completion
\* order, the merged stream never holds a batch of a partition before a batch
\* of a lower one, and when a batch of partition i has been emitted every
\* lower partition is over: its worker has finished, it is not being
\* iterated, and all the batches of a finished Ray task are in the stream.
C10_OrderPreserved ==
    sconf.preserve_order =>
        /\ \A p, q \in 1..Len(emitted) :
              p < q => \/ emitted[p][1] < emitted[q][1]
                       \/ emitted[p][1] = emitted[q][1] /\ emitted[p][2] < emitted[q][2]
        /\ \A p \in 1..Len(emitted) :
              \A j \in Parts(sconf.nparts) :
                 j < emitted[p][1] =>
                    /\ worker[j] # "running"
                    /\ cur # j
                    /\ j \notin pending
                    /\ j \notin results
                    /\ (sconf.backend = "ray" /\ worker[j] = "done") =>
                          Cardinality(BatchesOf(j)) = nbatches[j]

\* _stream_results holds the finished partition 2 back while partition 1 is
\* still running and partition 0 is already in the stream
C10_Witness ==
    /\ sconf.preserve_order
    /\ UsesStreamResults(sconf)
    /\ sconf.backend = "ray"
    /\ results = {2}
    /\ next_expected_idx = 1
    /\ worker[1] = "running"
    /\ Len(emitted) = 2

\* the merged stream holds all of partition j: none of it is left in the
\* buffer of finished results, and a Ray task's whole list is in the stream
WhollyEmitted(j) ==
    /\ j \notin results
    /\ sconf.backend = "ray" => Cardinality(BatchesOf(j)) = nbatches[j]

\* C11 (as stated): a failed partition is the only one skipped: the merged
\* stream is never aborted, and when it ends every batch of every partition
\* that did not fail is in it.
C11_Original ==
    /\ spc # "aborted"
    /\ spc = "done" => \A j \in Parts(sconf.nparts) \ failed : WhollyEmitted(j)

\* no worker failed and no service raised
NoFailures == failed = {} /\ \A i \in Parts(sconf.nparts) : worker[i] # "crashed"

\* the batches of partition j in the stream are its 1st, 2nd, ... in that
\* order, each once
EachOnce(j) ==
    /\ \A k \in 1..Cardinality(BatchesOf(j)) :
          Cardinality({p \in BatchesOf(j) : emitted[p][2] = k}) = 1
    /\ \A p, q \in BatchesOf(j) : p < q => emitted[p][2] < emitted[q][2]

\* C12: with no failures, when the merged stream ends nothing is left in
\* pending, in the ready list, in the buffer of results or half iterated, the
\* stream holds the batches of every partition each exactly once (all
\* nbatches of a Ray task's list), and with preserve_order = true the
\* partitions follow one another in index order.
C12_Conservation ==
    (spc = "done" /\ NoFailures) =>
        /\ pending = {} /\ ready = <<>> /\ results = {} /\ cur = None
        /\ \A j \in Parts(sconf.nparts) : EachOnce(j) /\ WhollyEmitted(j)
        /\ \A p \in 1..Len(emitted) :
              /\ emitted[p][1] \in Parts(sconf.nparts)
              /\ emitted[p][2] \in 1..MaxBatches
        /\ sconf.preserve_order =>
              \A p, q \in 1..Len(emitted) : p < q => emitted[p][1] <= emitted[q][1]

\* an unordered Ray merge of three partitions that ended with the last
\* partition's batches first and every list in the stream
C12_Witness ==
    /\ spc = "done"
    /\ NoFailures
    /\ ~sconf.preserve_order
    /\ sconf.backend = "ray"
    /\ sconf.nparts = 3
    /\ \A j \in Parts(3) : nbatches[j] >= 1
    /\ Len(emitted) >= 3
    /\ emitted[1][1] = 2

\* the partitions tile [start_time, end_time) of the parent, in time order
Cover(ps, p) ==
    /\ ps[1].start_time = p.start_time
    /\ \A k \in 1..(Len(ps) - 1) : ps[k].end_time = ps[k + 1].start_time
    /\ \A k \in 1..Len(ps) : ps[k].start_time <= ps[k].end_time
    /\ ps[Len(ps)].end_time = p.end_time
    /\ \A k, l \in 1..Len(ps) : k < l => ps[k].start_time <= ps[l].start_time

\* C13 (as stated): whatever split_by_time_windows or split_by_window_size
\* returns for a parent with start_time <= end_time starts at the parent's
\* start, is contiguous, has no partition ending before it starts, ends at the
\* parent's end and is in increasing time order.
C13_Original ==
    (tpc = "returned" /\ partitions # <<>>) => Cover(partitions, params)

\* the callers whose acquire scope is bound to handle h
Holders(h) == {c \in Callers : client[c] = h}

\* the places of handle h in the queue
Queued(h) == {k \in 1..Len(queue) : queue[k] = h}

\* C14 (as stated), for a pool that close_async has not been called on: every
\* handle is queued once or held by one caller, never both; a caller that has
\* a stream open on a handle is inside its acquire scope for that handle; and
\* queued plus held handles number pool_size.
C14_Original ==
    cpc = "idle" =>
        /\ \A h \in Handles : Cardinality(Queued(h)) + Cardinality(Holders(h)) = 1
        /\ \A c \in Callers : reader[c] # None => client[c] = reader[c]
        /\ Len(queue) + Cardinality({c \in Callers : client[c] # None}) = pool_size

\* C15 (as stated): once close_async has returned, every handle of the pool
\* has been closed and the queue is empty, whatever the callers were doing.
C15_Original ==
    cpc = "closed" => closed = Handles /\ queue = <<>>

\* C16: a caller leaves the wait of acquire in one of two ways: bound to the
\* handle that was at the head of the queue, which the queue loses, or, if a
\* timeout was given, with ResourceExhausted, the queue and every caller's
\* handle being as they were.
C16_Acquire ==
    [][\A c \in Callers :
          (ppc[c] = "waiting" /\ ppc'[c] # "waiting") =>
             \/ /\ ppc'[c] = "scope"
                /\ queue # <<>>
                /\ client'[c] = Head(queue)
                /\ queue' = Tail(queue)
                /\ client'[c] \notin closed
                /\ \A d \in Callers \ {c} : client'[d] = client[d]
             \/ /\ ppc'[c] = "exhausted"
                /\ timeout[c]
                /\ queue' = queue
                /\ client' = client]_vars

\* one caller holds the only handle; the other asked with a timeout and was
\* refused
C16_Witness ==
    /\ pool_size = 1
    /\ ppc["c1"] = "scope"
    /\ client["c1"] = 1
    /\ ppc["c2"] = "exhausted"
    /\ timeout["c2"]
    /\ queue = <<>>

\* C17: the response stream is at every moment the first batches the service
\* produced, in production order and each once; the batch read for the schema
\* is the first produced and the first sent; and a stream that ends normally
\* holds all the batches of the service, sync or bridged.
C17_StreamOrder ==
    /\ Len(sent) <= Len(produced)
    /\ \A k \in 1..Len(sent) : sent[k] = produced[k]
    /\ first_batch # None => first_batch = produced[1]
    /\ rpc = "stream_rest" => (sent # <<>> /\ sent[1] = first_batch)
    /\ rpc = "done" => (sent = produced /\ Len(sent) = service.total)

\* an async-only service of three batches, read through the bridge to the end
C17_Witness ==
    /\ rpc = "done"
    /\ service.kind = "async"
    /\ service.total = 3
    /\ sent = <<1, 2, 3>>
    /\ bridge = <<>>

\* C18 (as stated): a service that yields no batch gets the request an
\* Internal error that reports the empty stream, with no schema and no stream
\* handed to the client.
C18_Original ==
    (called = "direct" /\ service.total = 0 /\ ~service.raises /\ rpc # "first") =>
        /\ status = "Internal"
        /\ detail = "no_batches"
        /\ ~schema
        /\ sent = <<>>

\* C19 (as stated): a ticket whose tag has no registered parameter type, or
\* whose parameter type has no service, is answered Unavailable, and no
\* service is called.
C19_Original ==
    (ticket.tag \in {"unknown_param", "no_service"} /\ rpc # "received") =>
        /\ status = "Unavailable"
        /\ called = "none"

\* C20 (as stated): the service is called through the distributed dispatcher
\* exactly when the parameter is a time series whose estimate_data_points()
\* is above 1000, and directly otherwise.
C20_Original ==
    called # "none" => (called = "dispatcher" <=> ticket.param = "ts_large")

\* C21: once the merged stream is cancelled, eventually no partition worker
\* is running; once a response is abandoned, eventually the bridge's producer
\* is no longer iterating the service; once a caller is cancelled inside its
\* acquire scope, eventually its handle is back in the queue and it holds
\* none.
C21_Quiescence ==
    /\ (spc = "cancelled") ~> (\A i \in Parts(sconf.nparts) : worker[i] # "running")
    /\ (rpc = "abandoned") ~> (producer # "running")
    /\ \A c \in Callers :
          (ppc[c] = "cancelling") ~>
              (ppc[c] = "cancelled" /\ client[c] = None
               /\ Len(queue) + Cardinality({d \in Callers : client[d] # None}) = pool_size)

\* a response abandoned while the producer still has batches to take from
\* the service and unread batches sit in the bridge's queue
C21_Witness ==
    /\ rpc = "abandoned"
    /\ producer = "running"
    /\ Len(produced) < service.total
    /\ bridge # <<>>

\* C22: for a registered parameter type, no step of the round trip raises,
\* the serialized object has exactly one "kind" key and its value is the
\* type's tag, the decoded instance equals the original and has no "kind"
\* field, and serializing it again gives the same bytes.
C22_Original ==
    registered =>
        /\ kraised = "none"
        /\ kpc \in {"encoded", "decoded", "done"} =>
              /\ Cardinality({i \in DOMAIN data : data[i][1] = "kind"}) = 1
              /\ \A i \in DOMAIN data :
                    data[i][1] = "kind" =>
                        data[i][2] = dumps_value(PyScalar(PyStr(kind_of(base, params_obj.cls))))
        /\ kpc \in {"decoded", "done"} =>
              /\ new_params = params_obj
              /\ "kind" \notin DOMAIN new_params.fields
        /\ kpc = "done" => data2 = data

\* C23: registering a pair whose tag is bound to a different service type
\* raises, registering the pair that is already bound raises nothing, and in
\* both cases the three registries are left as they were.
C23_Original ==
    [][\A p \in ParamTypes, c \in ServiceTypes, a \in Aliases \cup {NoAlias} :
          RegisterService(p, c, a) =>
              LET bound == service_registry[params_qual_name(p)] IN
              /\ bound \notin {Missing, c} =>
                    /\ reg_raised' = "ValueError"
                    /\ UNCHANGED <<params_registry, service_registry, alias_registry>>
              /\ bound = c =>
                    /\ reg_raised' = "none"
                    /\ UNCHANGED <<params_registry, service_registry, alias_registry>>]_vars

\* C24: a registration that names an alias already referring to another
\* parameter type raises and leaves the alias where it was.
C24_Original ==
    [][\A a \in Aliases, p \in ParamTypes :
          LET taken == alias_registry[a] \notin {Missing, params_qual_name(p)} IN
          /\ (taken /\ RegisterAlias(a, params_qual_name(p))) =>
                (reg_raised' # "none" /\ alias_registry'[a] = alias_registry[a])
          /\ (taken /\ RegisterParams(p, a)) =>
                (reg_raised' # "none" /\ alias_registry'[a] = alias_registry[a])
          /\ \A c \in ServiceTypes :
                (taken /\ RegisterService(p, c, a)) =>
                    (reg_raised' # "none" /\ alias_registry'[a] = alias_registry[a])]_vars

\* C25: after unregister(name) the parameter type and the service are found
\* neither under that name nor under any name that referred to the same
\* entry, nothing is raised, and a name that was not registered leaves the
\* registries as they were.
C25_Original ==
    [][\A name \in Names :
          Unregister(name) =>
              LET qn == resolve(alias_registry, name)
                  same == {n \in Names : resolve(alias_registry, n) = qn}
              IN  /\ reg_raised' = "none"
                  /\ \A n \in same :
                        /\ lookup_params(alias_registry', params_registry', n) = Missing
                        /\ lookup_service(alias_registry', service_registry', n) = Missing
                  /\ (/\ alias_registry[name] = Missing
                      /\ params_registry[name] = Missing
                      /\ service_registry[name] = Missing) =>
                        UNCHANGED <<params_registry, service_registry, alias_registry>>]_vars

\* C26 as stated: when a call fails with an error that is not monitored (no
\* other call having changed the breaker meanwhile), the breaker's fields are
\* what they were when the call was made.
C26_Original ==
    [][\A t \in Tasks :
         (/\ UsesBreaker(config)
          /\ FailStep(t)
          /\ RaisedExc(t).kind \notin config.monitored
          /\ entry[t].valid) =>
             breaker' = entry[t].b]_vars

\* C26 amended: the failure itself leaves every field of the breaker as it
\* is and the error goes on to the caller; over the whole call the fields
\* are what the admission check made of them, which is a move from OPEN to
\* HALF_OPEN with success_count zeroed or nothing.
C26_UnmonitoredFailure ==
    [][\A t \in Tasks :
         (/\ UsesBreaker(config)
          /\ FailStep(t)
          /\ RaisedExc(t).kind \notin config.monitored) =>
             /\ breaker' = breaker
             /\ RaisedExc(t).kind \in FuncKinds
             /\ RaisedExc(t).at = attempt[t]
             /\ entry[t].valid =>
                   \/ breaker' = entry[t].b
                   \/ /\ entry[t].b.state = OPEN
                      /\ breaker' = [entry[t].b EXCEPT !.state = HALF_OPEN,
                                                       !.success_count = 0]]_vars

\* a call admitted on probation has failed with an error that is not
\* monitored and the breaker is still HALF_OPEN
C26_Witness ==
    /\ UsesBreaker(config)
    /\ breaker.state = HALF_OPEN
    /\ \E t \in Tasks :
          /\ pc[t] = "returned"
          /\ outcome[t].status = "raised"
          /\ outcome[t].exc.kind \in FuncKinds \ config.monitored
          /\ \A u \in Tasks \ {t} : pc[u] = "idle"

\* C27 as stated: under FIXED, LINEAR and EXPONENTIAL the delay of attempt n,
\* before the clamp, is at least that of attempt n-1, and under every
\* strategy the delay returned is at most max_delay.
C27_Original ==
    /\ rconf.strategy # "JITTERED_EXPONENTIAL" =>
          \A n \in 2..Len(raws) : raws[n] >= raws[n - 1]
    /\ \A n \in DOMAIN delays : delays[n] <= rconf.max_delay * Den

\* C27 amended: the delays before the clamp do not decrease under FIXED,
\* under LINEAR when base_delay >= 0, and under EXPONENTIAL when
\* base_delay >= 0 and exponential_base >= 1; the delay returned is at most
\* max_delay under every strategy and configuration.
C27_Monotone ==
    /\ (\/ rconf.strategy = "FIXED_DELAY"
        \/ rconf.strategy = "LINEAR_BACKOFF" /\ rconf.base_delay >= 0
        \/ /\ rconf.strategy = "EXPONENTIAL_BACKOFF"
           /\ rconf.base_delay >= 0
           /\ rconf.exponential_base >= 2) =>
          \A n \in 2..Len(raws) : raws[n] >= raws[n - 1]
    /\ \A n \in DOMAIN delays : delays[n] <= rconf.max_delay * Den

\* three attempts of an exponential backoff that doubles from one second,
\* the third clamped to max_delay
C27_Witness ==
    /\ rconf.strategy = "EXPONENTIAL_BACKOFF"
    /\ rconf.base_delay = 1
    /\ rconf.exponential_base = 4
    /\ Len(delays) = 3
    /\ raws = <<Den, 2 * Den, 4 * Den>>
    /\ delays[3] = rconf.max_delay * Den
    /\ delays[3] < raws[3]

\* the duration of partition k of the list returned
DurationOf(k) == partitions[k].end_time - partitions[k].start_time

\* C28: split_by_time_windows(n) raises and returns nothing for n <= 0; for
\* n >= 1 it returns n contiguous partitions from the parent's start, the
\* first n-1 of one duration and the last ending at the parent's end; for
\* n = 1 the one partition is the parent itself.
C28_TimeWindows ==
    method = "split_by_time_windows" =>
        /\ num_partitions <= 0 => (tpc = "raised" /\ partitions = <<>>)
        /\ num_partitions >= 1 =>
              /\ tpc = "returned"
              /\ Len(partitions) = num_partitions
              /\ \A k, l \in 1..(num_partitions - 1) : DurationOf(k) = DurationOf(l)
              /\ partitions[1].start_time = params.start_time
              /\ \A k \in 1..(num_partitions - 1) :
                    partitions[k].end_time = partitions[k + 1].start_time
              /\ partitions[num_partitions].end_time = params.end_time
        /\ num_partitions = 1 => partitions = <<params>>

\* three or more windows whose last is shorter than the others
C28_Witness ==
    /\ method = "split_by_time_windows"
    /\ tpc = "returned"
    /\ Len(partitions) >= 3
    /\ DurationOf(Len(partitions)) > 0
    /\ DurationOf(Len(partitions)) < DurationOf(1)

\* C29: split_by_window_size(d), d > 0, returns ceil(duration / d)
\* partitions, each but the last of duration d, the last ending at the
\* parent's end with a duration in 1..d.
C29_WindowSize ==
    method = "split_by_window_size" =>
        /\ tpc = "returned"
        /\ Len(partitions) = Ceil(time_range_duration(params), window_size)
        /\ \A k \in 1..(Len(partitions) - 1) : DurationOf(k) = window_size
        /\ partitions # <<>> =>
              /\ partitions[Len(partitions)].end_time = params.end_time
              /\ DurationOf(Len(partitions)) > 0
              /\ DurationOf(Len(partitions)) <= window_size

\* two or more windows, the last cut short at the parent's end
C29_Witness ==
    /\ method = "split_by_window_size"
    /\ Len(partitions) >= 2
    /\ DurationOf(Len(partitions)) < window_size
    /\ DurationOf(1) = window_size

\* C30: get_optimal_partitions returns
\* max(1, min(max_workers, ceil(points / target))) partitions when
\* estimate_data_points() gives a number and min(max_workers, 8) when it
\* gives None.
C30_OptimalPartitions ==
    method = "get_optimal_partitions" =>
        /\ tpc = "returned"
        /\ estimated_points # None =>
              Len(partitions) =
                  Max({1, Min({max_workers,
                               Ceil(estimated_points, target_points_per_partition)})})
        /\ estimated_points = None =>
              Len(partitions) = Min({max_workers, FallbackPartitions})

\* no estimate and more than eight workers: eight partitions; or an estimate
\* that asks for more partitions than there are workers
C30_Witness ==
    /\ method = "get_optimal_partitions"
    /\ tpc = "returned"
    /\ \/ /\ estimated_points = None
          /\ max_workers > FallbackPartitions
          /\ Len(partitions) = FallbackPartitions
       \/ /\ estimated_points # None
          /\ Ceil(estimated_points, target_points_per_partition) > max_workers
          /\ max_workers >= 2
          /\ Len(partitions) = max_workers

\* C31: under the real-time hint a query whose duration is at most one hour
\* comes back as the one partition that is the query itself, and a longer
\* query comes back cut into windows of 15 minutes from its start, the last
\* one ending with the query.
C31_RealTime ==
    (opc = "returned" /\ hint.pattern = REAL_TIME) =>
        IF time_range_duration(query) <= Hour
        THEN plan = <<query>>
        ELSE /\ Len(plan) = Ceil(time_range_duration(query), QuarterHour)
             /\ \A i \in 1..Len(plan) :
                   /\ plan[i].start_time = query.start_time + (i - 1) * QuarterHour
                   /\ plan[i].end_time =
                          Min({query.start_time + i * QuarterHour, query.end_time})

C31_Witness ==
    /\ opc = "returned"
    /\ hint.pattern = REAL_TIME
    /\ time_range_duration(query) > Hour
    /\ time_range_duration(query) % QuarterHour # 0
    /\ Len(plan) = 5

\* C32: every error raised inside the operation is seen by the retry and
\* breaker logic as its own kind (a FastFlight error as itself, any other
\* error as what _handle_flight_error makes of it), and the error the caller
\* of either API receives is of the kind the manager raised.
C32_Original ==
    /\ \A i \in 1..Len(cseen) : cseen[i] = outer_except(craised[i])
    /\ fpc = "raised" => csurfaced = outer_except(cmanager)

\* C38: a blocking get_stream_reader call, made while the pool has a free
\* handle and the server responds, eventually returns or raises.
C38_Original ==
    (capi = "get_stream_reader" /\ fpc = "call") ~> (fpc \in {"returned", "raised"})

\* C33: while a call is between its admission and its post-call update, no
\* other call on the same breaker is admitted, rejected or completed, and
\* the breaker does not change.
C33_Original ==
    [][\A t \in Tasks :
         (UsesBreaker(config) /\ pc[t] = "running") =>
            /\ \A u \in Tasks \ {t} : ~AttemptStep(u) /\ ~SuccessStep(u) /\ ~FailStep(u)
            /\ pc'[t] = "running" => breaker' = breaker]_vars

\* C34: a success that adds to success_count, or closes the circuit, is the
\* success of a call that was admitted while the breaker was HALF_OPEN.
C34_Original ==
    [][\A t \in Tasks :
         (/\ UsesBreaker(config)
          /\ SuccessStep(t)
          /\ \/ breaker'.success_count = breaker.success_count + 1
             \/ breaker.state = HALF_OPEN /\ breaker'.state = CLOSED) =>
            entry[t].at = HALF_OPEN]_vars

\* C35: under any interleaving of calls the breaker's state changes only
\* from CLOSED to OPEN, from OPEN to HALF_OPEN, and from HALF_OPEN to CLOSED
\* or to OPEN.
C35_Transitions ==
    [][breaker'.state # breaker.state =>
          <<breaker.state, breaker'.state>> \in
              {<<CLOSED, OPEN>>, <<OPEN, HALF_OPEN>>, <<HALF_OPEN, CLOSED>>,
               <<HALF_OPEN, OPEN>>}]_vars

\* two calls are in flight on a breaker that has opened and is half-open again
C35_Witness ==
    /\ breaker.state = HALF_OPEN
    /\ \A t \in Tasks : pc[t] = "running"

\* C36: a CLOSED breaker has fewer failures counted than failure_threshold,
\* and neither count is ever negative.
C36_Counts ==
    UsesBreaker(config) =>
        /\ breaker.state = CLOSED => breaker.failure_count < config.failure_threshold
        /\ breaker.failure_count >= 0
        /\ breaker.success_count >= 0

\* the breaker is CLOSED one failure short of opening, both calls in flight
C36_Witness ==
    /\ UsesBreaker(config)
    /\ breaker.state = CLOSED
    /\ breaker.failure_count = config.failure_threshold - 1
    /\ breaker.failure_count > 0
    /\ \A t \in Tasks : pc[t] = "running"

\* C37: with the default retryable kinds, an attempt the breaker rejects
\* ends the call: the function is not invoked, no delay is slept, and the
\* caller receives CircuitOpen.
C37_RejectionEndsCall ==
    [][\A t \in Tasks :
         (/\ UsesBreaker(config)
          /\ config.retryable = DefaultRetryable
          /\ AttemptStep(t)
          /\ ~Invoked(t)) =>
            /\ pc'[t] = "returned"
            /\ outcome'[t].status = "raised"
            /\ outcome'[t].exc.kind = CIRCUIT_OPEN
            /\ sleeps'[t] = sleeps[t]
            /\ calls'[t] = calls[t]]_vars

\* a retry, after one invocation and one sleep, was rejected
C37_Witness ==
    \E t \in Tasks :
        /\ UsesBreaker(config) /\ UsesRetry(config)
        /\ config.retryable = DefaultRetryable
        /\ pc[t] = "returned"
        /\ outcome[t].status = "raised"
        /\ outcome[t].exc.kind = CIRCUIT_OPEN
        /\ attempt[t] = 2 /\ calls[t] = 1 /\ sleeps[t] = 1

\* C39: once the asynchronous producer behind the bridge has ended or has
\* raised, the consumer's next() raises or signals the end of the stream:
\* the request is answered or its stream ends.
C39_Original ==
    (producer \in {"ended", "died"}) ~> (rpc \in {"done", "failed", "aborted"})

\* C40: split_by_window_size returns for every window size, zero and
\* negative ones included, and for parents that do not start before their
\* end.
C40_Original == <>(lpc = "returned")

====
